---- MODULE Spec2Model ----
(***************************************************************************)
(* A model of the ferrisdb storage core: the concurrent skip list behind   *)
(* the MemTable (memtable/skip_list.rs, memtable/mod.rs) and the           *)
(* write-ahead log (wal/log_entry.rs, wal/writer.rs, wal/reader.rs).       *)
(*                                                                         *)
(* Every shared-memory access of the lock-free code (an atomic load, a     *)
(* compare_exchange, a fetch_add) is one step of the thread that makes it; *)
(* the thread-local computation up to the next access belongs to the step. *)
(***************************************************************************)
EXTENDS Integers, Naturals, Sequences, FiniteSets, TLC

----------------------------------------------------------------------------
(* Bounds of the model *)

\* total number of SkipList::insert calls made by the writer threads
MaxInserts == 2
\* the version domain 0..MaxTs stands for u64; MaxTs plays u64::MAX
MaxTs == 2
\* number of put/delete calls made on the MemTable when it is used by one
\* thread
MaxWrites == 2
\* MemTable::new(max_size)
MemTableSize == 66

\* total number of WALWriter::append calls made by the appending threads
MaxAppends == 2
\* WALWriter::new(path, sync_mode, size_limit)
WalSizeLimit == 55

\* user keys are byte strings, compared as Vec<u8>
Keys == {<<1>>, <<2>>}
Values == {<<7>>, <<8, 9>>}
\* the threads that call insert concurrently
Writers == {1, 2}
Versions == 1..MaxTs
\* the heights random_height draws: MAX_HEIGHT is scaled down to two levels
Heights == {1, 2}
TopHeight == CHOOSE h \in Heights : \A g \in Heights : g <= h

\* the threads that call append concurrently
Appenders == {1, 2}
SyncModes == {"None", "Normal", "Full"}

NULL == 0
HEAD == 1

VARIABLES
    nodes,      \* the heap of linked nodes: nodes[HEAD] is the sentinel
    height,     \* SkipList.height
    size,       \* SkipList.size
    leaked,     \* nodes allocated by insert, never linked and never freed
    w,          \* per writer thread: the locals of its insert call
    r,          \* the reader thread: the locals of its get call
    ncalls,     \* history: number of insert calls started
    called,     \* history: the internal keys of the insert calls started
    memory_usage,   \* MemTable.memory_usage
    mt_result,      \* what the last put/delete returned
    writes,         \* history: the put/delete calls made on the MemTable
    mcall,          \* per thread: the locals of its put/delete call
    judged,         \* history: the calls in the order of their fetch_add
    sync_mode,      \* WALWriter.sync_mode
    initial_size,   \* history: the size of the file when the writer opened it
    wal_size,       \* WALWriter.size
    lock,           \* the thread that holds the mutex of WALWriter.file, or 0
    wbuf,           \* the bytes held by the BufWriter (process memory)
    osfile,         \* the bytes of the file as the operating system has them
    synced,         \* how many bytes of osfile are known to be on disk
    app,            \* per appending thread: the locals of its append call
    phase,          \* "running", then how the writer ended
    reader,         \* the WALReader opened on the file afterwards
    written,        \* history: the records written, in mutex order
    returned,       \* history: how many append calls have returned Ok
    sync_mark,      \* history: Len(written) at the last sync()
    damage,         \* history: the offset of the byte changed in the file, or 0
    codec_entry,    \* the WALEntry handed to encode
    codec_data,     \* the buffer handed to decode
    codec_at,       \* history: the offset of the byte changed in it, or 0
    codec_result,    \* what decode returned
    sst_w,          \* the SSTableWriter, or what became of it
    sst_file,       \* the bytes of the SSTable file
    sst_res,        \* what the last add or finish returned
    sst_added,      \* history: the entries whose add returned Ok
    sst_calls,      \* history: number of add calls made
    sst_rd,         \* the SSTableReader, or the error of open
    sst_it,         \* the SSTableIterator
    sst_out         \* what the last call on the reader or iterator returned

slVars == <<nodes, height, size, leaked, w, r, ncalls, called>>
mtVars == <<memory_usage, mt_result, writes, mcall, judged>>
walVars == <<sync_mode, initial_size, wal_size, lock, wbuf, osfile, synced, app, phase, reader,
             written, returned, sync_mark, damage>>
codecVars == <<codec_entry, codec_data, codec_at, codec_result>>
sstVars == <<sst_w, sst_file, sst_res, sst_added, sst_calls, sst_rd, sst_it,
             sst_out>>
vars == <<slVars, mtVars, walVars, codecVars, sstVars>>

IdleAppender == [pc |-> "idle", entry |-> <<>>, result |-> "none"]
NewReader == [pos |-> 0, items |-> <<>>, ended |-> FALSE, all |-> [kind |-> "none"]]

\* the write-ahead log left out of a behaviour
WalUnused ==
    /\ sync_mode = "None"
    /\ initial_size = 0
    /\ wal_size = 0
    /\ lock = 0
    /\ wbuf = <<>>
    /\ osfile = <<>>
    /\ synced = 0
    /\ app = [t \in Appenders |-> IdleAppender]
    /\ phase = "running"
    /\ reader = NewReader
    /\ written = <<>>
    /\ returned = 0
    /\ sync_mark = 0
    /\ damage = 0

\* the record codec left out of a behaviour
CodecUnused ==
    /\ codec_entry = [timestamp |-> 0, operation |-> "Put", key |-> <<>>,
                      value |-> <<>>]
    /\ codec_data = <<>>
    /\ codec_at = 0
    /\ codec_result = [kind |-> "none"]

\* Option<T>
None == <<>>
Some(x) == <<x>>

\* no SSTableWriter, no file, no reader
SstUnused ==
    /\ sst_w = [state |-> "none"]
    /\ sst_file = <<>>
    /\ sst_res = [kind |-> "none", call |-> "none", entry |-> None]
    /\ sst_added = <<>>
    /\ sst_calls = 0
    /\ sst_rd = [state |-> "none"]
    /\ sst_it = [state |-> "none"]
    /\ sst_out = [kind |-> "none", call |-> "none"]

----------------------------------------------------------------------------
(* Ordering *)

IntCmp(a, b) == IF a < b THEN -1 ELSE IF a > b THEN 1 ELSE 0

\* Vec<u8>::cmp: lexicographic on unsigned bytes
RECURSIVE BytesCmp(_, _)
BytesCmp(a, b) ==
    IF a = <<>> THEN (IF b = <<>> THEN 0 ELSE -1)
    ELSE IF b = <<>> THEN 1
    ELSE IF Head(a) < Head(b) THEN -1
    ELSE IF Head(a) > Head(b) THEN 1
    ELSE BytesCmp(Tail(a), Tail(b))

\* InternalKey::compare: user key ascending, then timestamp descending;
\* the operation takes no part in the comparison.
Compare(a, b) ==
    LET c == BytesCmp(a.user_key, b.user_key)
    IN  IF c = 0 THEN IntCmp(b.timestamp, a.timestamp) ELSE c

IKey(k, ts) == [user_key |-> k, timestamp |-> ts]
KeyOf(n) == [user_key |-> n.user_key, timestamp |-> n.timestamp]

----------------------------------------------------------------------------
(* Nodes *)

\* Node::new: `height` null forward pointers
NewNode(k, ts, op, val, h) ==
    [user_key |-> k, timestamp |-> ts, operation |-> op, value |-> val,
     next |-> [i \in 0..(h - 1) |-> NULL]]

\* Node::head
HeadNode == NewNode(<<>>, 0, "Put", <<>>, TopHeight)

NoVec == [i \in 0..0 |-> NULL]
NullVec(h) == [i \in 0..(h - 1) |-> NULL]

----------------------------------------------------------------------------
(* SkipList::find, one load at a time.  A frame is the position of the     *)
(* search: the next load is nodes[pred].next[level].                       *)

FindBegin(loaded_height, preds, succs) ==
    [level |-> loaded_height - 1, pred |-> HEAD, preds |-> preds,
     succs |-> succs, done |-> FALSE]

\* find that compares user keys only and stops at the first entry of the
\* searched user key, whatever its version
FindStepUserKeyOnly(key, fr, mem) ==
    LET curr == mem[fr.pred].next[fr.level]
    IN  IF curr # NULL /\ BytesCmp(key.user_key, mem[curr].user_key) = 1
        THEN [fr EXCEPT !.pred = curr]
        ELSE LET rec == IF fr.level \in DOMAIN fr.preds
                        THEN [fr EXCEPT !.preds[fr.level] = fr.pred,
                                        !.succs[fr.level] = curr]
                        ELSE fr
             IN  IF fr.level = 0
                 THEN [rec EXCEPT !.done = TRUE, !.pred = NULL]
                 ELSE [rec EXCEPT !.level = fr.level - 1]

\* find that also walks past a node whose key equals the searched key
FindStepPastEqual(key, fr, mem) ==
    LET curr == mem[fr.pred].next[fr.level]
    IN  IF curr # NULL /\ Compare(key, KeyOf(mem[curr])) >= 0
        THEN [fr EXCEPT !.pred = curr]
        ELSE LET rec == IF fr.level \in DOMAIN fr.preds
                        THEN [fr EXCEPT !.preds[fr.level] = fr.pred,
                                        !.succs[fr.level] = curr]
                        ELSE fr
             IN  IF fr.level = 0
                 THEN [rec EXCEPT !.done = TRUE, !.pred = NULL]
                 ELSE [rec EXCEPT !.level = fr.level - 1]

FindStep(key, fr, mem) ==
    LET curr == mem[fr.pred].next[fr.level]
    IN  IF curr # NULL /\ Compare(key, KeyOf(mem[curr])) = 1
        THEN [fr EXCEPT !.pred = curr]
        ELSE LET rec == IF fr.level \in DOMAIN fr.preds
                        THEN [fr EXCEPT !.preds[fr.level] = fr.pred,
                                        !.succs[fr.level] = curr]
                        ELSE fr
             IN  IF fr.level = 0
                 THEN [rec EXCEPT !.done = TRUE, !.pred = NULL]
                 ELSE [rec EXCEPT !.level = fr.level - 1]

\* find with the equality test made on the predecessor instead of the successor
FindFoundPred(key, fr, mem) ==
    /\ fr.preds[0] # NULL
    /\ Compare(KeyOf(mem[fr.preds[0]]), key) = 0

\* the value find returns
FindFound(key, fr, mem) ==
    /\ fr.succs[0] # NULL
    /\ Compare(KeyOf(mem[fr.succs[0]]), key) = 0

IdleFrame == [level |-> 0, pred |-> NULL, preds |-> NoVec, succs |-> NoVec,
              done |-> FALSE]

----------------------------------------------------------------------------
(* SkipList::insert *)

IdleWriter ==
    [pc |-> "idle", user_key |-> <<>>, timestamp |-> 0, operation |-> "Put",
     value |-> <<>>, height |-> 0, current_height |-> 0, fr |-> IdleFrame,
     link |-> 0, new_node |-> NULL]

WKey(t) == IKey(w[t].user_key, w[t].timestamp)

\* what each writer thread writes: thread 1 puts its own value, thread 2
\* writes tombstones (MemTable::delete passes an empty value)
WriterOp(t) == IF t = 1 THEN "Put" ELSE "Delete"
WriterValue(t) == IF t = 1 THEN <<7>> ELSE <<>>

\* entry of insert: the key is built and random_height has drawn a height
InsertCall(t) ==
    /\ w[t].pc = "idle"
    /\ ncalls < MaxInserts
    /\ \E k \in Keys, ts \in Versions, h \in Heights :
         /\ w' = [w EXCEPT ![t] =
                [IdleWriter EXCEPT !.pc = "height_load", !.user_key = k,
                    !.timestamp = ts, !.operation = WriterOp(t),
                    !.value = WriterValue(t),
                    !.height = h,
                    !.fr = [IdleFrame EXCEPT !.preds = NullVec(h),
                                             !.succs = NullVec(h)]]]
         /\ called' = called \cup {IKey(k, ts)}
    /\ ncalls' = ncalls + 1
    /\ UNCHANGED <<nodes, height, size, leaked, r, mtVars, walVars,
                   codecVars, sstVars>>

\* self.height.load in the raise-the-height loop
HeightLoad(t) ==
    /\ w[t].pc = "height_load"
    /\ w' = IF w[t].height <= height
            THEN [w EXCEPT ![t].pc = "find_height"]
            ELSE [w EXCEPT ![t].pc = "height_cas", ![t].current_height = height]
    /\ UNCHANGED <<nodes, height, size, leaked, r, ncalls, called, mtVars, walVars,
                   codecVars, sstVars>>

\* self.height.compare_exchange(current_height, height)
HeightCas(t) ==
    /\ w[t].pc = "height_cas"
    /\ IF height = w[t].current_height
       THEN /\ height' = w[t].height
            /\ w' = [w EXCEPT ![t].pc = "find_height", ![t].current_height = 0]
       ELSE /\ height' = height
            /\ w' = [w EXCEPT ![t].pc = "height_load", ![t].current_height = 0]
    /\ UNCHANGED <<nodes, size, leaked, r, ncalls, called, mtVars, walVars,
                   codecVars, sstVars>>

\* find: self.height.load, the bound of the level loop
InsertFindHeight(t) ==
    /\ w[t].pc = "find_height"
    /\ w' = [w EXCEPT ![t].fr = FindBegin(height, w[t].fr.preds, w[t].fr.succs),
                      ![t].pc = "find_load"]
    /\ UNCHANGED <<nodes, height, size, leaked, r, ncalls, called, mtVars, walVars,
                   codecVars, sstVars>>

\* insert that takes the key as present only when the entry found also has
\* the operation being written
InsertFindLoadSameOperation(t) ==
    /\ w[t].pc = "find_load"
    /\ LET fr2 == FindStep(WKey(t), w[t].fr, nodes)
       IN  IF ~fr2.done
           THEN w' = [w EXCEPT ![t].fr = fr2]
           ELSE IF w[t].link > 0
           THEN w' = [w EXCEPT ![t].fr = fr2, ![t].pc = "cas_upper"]
           ELSE IF FindFound(WKey(t), fr2, nodes)
                   /\ nodes[fr2.succs[0]].operation = w[t].operation
           THEN w' = [w EXCEPT ![t] = IdleWriter]
           ELSE w' = [w EXCEPT ![t].fr = fr2, ![t].pc = "cas_bottom"]
    /\ UNCHANGED <<nodes, height, size, leaked, r, ncalls, called, mtVars, walVars,
                   codecVars, sstVars>>

\* find: one load of a forward pointer; when the search ends, insert either
\* returns (the key exists), or goes to the CAS the search was made for
InsertFindLoad(t) ==
    /\ w[t].pc = "find_load"
    /\ LET fr2 == FindStep(WKey(t), w[t].fr, nodes)
       IN  IF ~fr2.done
           THEN w' = [w EXCEPT ![t].fr = fr2]
           ELSE IF w[t].link > 0
           THEN w' = [w EXCEPT ![t].fr = fr2, ![t].pc = "cas_upper"]
           ELSE IF FindFound(WKey(t), fr2, nodes)
           THEN w' = [w EXCEPT ![t] = IdleWriter]
           ELSE w' = [w EXCEPT ![t].fr = fr2, ![t].pc = "cas_bottom"]
    /\ UNCHANGED <<nodes, height, size, leaked, r, ncalls, called, mtVars, walVars,
                   codecVars, sstVars>>

\* the bottom link made without the new node's own forward pointer: what
\* followed the predecessor is cut off the chain
InsertCasBottomCutsTail(t) ==
    /\ w[t].pc = "cas_bottom"
    /\ LET p == w[t].fr.preds[0]
           s == w[t].fr.succs[0]
           id == Len(nodes) + 1
           nn == NewNode(w[t].user_key, w[t].timestamp, w[t].operation,
                         w[t].value, w[t].height)
       IN  IF nodes[p].next[0] = s
           THEN /\ nodes' = Append([nodes EXCEPT ![p].next[0] = id], nn)
                /\ w' = [w EXCEPT ![t].new_node = id,
                                  ![t].link = IF w[t].height > 1 THEN 1 ELSE 0,
                                  ![t].pc = IF w[t].height > 1
                                            THEN "cas_upper" ELSE "size_add"]
                /\ leaked' = leaked
           ELSE /\ nodes' = nodes
                /\ w' = [w EXCEPT ![t].pc = "find_height"]
                /\ leaked' = leaked + 1
    /\ UNCHANGED <<height, size, r, ncalls, called, mtVars, walVars,
                   codecVars, sstVars>>

\* the bottom link made with a plain store instead of a compare_exchange
InsertStoreBottom(t) ==
    /\ w[t].pc = "cas_bottom"
    /\ LET p == w[t].fr.preds[0]
           id == Len(nodes) + 1
           nn == [NewNode(w[t].user_key, w[t].timestamp, w[t].operation,
                          w[t].value, w[t].height)
                    EXCEPT !.next = [i \in 0..(w[t].height - 1) |-> w[t].fr.succs[i]]]
       IN  /\ nodes' = Append([nodes EXCEPT ![p].next[0] = id], nn)
           /\ w' = [w EXCEPT ![t].new_node = id,
                             ![t].link = IF w[t].height > 1 THEN 1 ELSE 0,
                             ![t].pc = IF w[t].height > 1
                                       THEN "cas_upper" ELSE "size_add"]
    /\ UNCHANGED <<height, size, leaked, r, ncalls, called, mtVars, walVars,
                   codecVars, sstVars>>

\* a new node with its forward pointers set to the successors found, and the
\* compare_exchange of preds[0].next[0] from succs[0] to it
InsertCasBottom(t) ==
    /\ w[t].pc = "cas_bottom"
    /\ LET p == w[t].fr.preds[0]
           s == w[t].fr.succs[0]
           id == Len(nodes) + 1
           nn == [NewNode(w[t].user_key, w[t].timestamp, w[t].operation,
                          w[t].value, w[t].height)
                    EXCEPT !.next = [i \in 0..(w[t].height - 1) |-> w[t].fr.succs[i]]]
       IN  IF nodes[p].next[0] = s
           THEN /\ nodes' = Append([nodes EXCEPT ![p].next[0] = id], nn)
                /\ w' = [w EXCEPT ![t].new_node = id,
                                  ![t].link = IF w[t].height > 1 THEN 1 ELSE 0,
                                  ![t].pc = IF w[t].height > 1
                                            THEN "cas_upper" ELSE "size_add"]
                /\ leaked' = leaked
           ELSE /\ nodes' = nodes
                /\ w' = [w EXCEPT ![t].pc = "find_height"]
                /\ leaked' = leaked + 1
    /\ UNCHANGED <<height, size, r, ncalls, called, mtVars, walVars,
                   codecVars, sstVars>>

\* the upper link retried with the same predecessor and successor, find
\* not run again
InsertCasUpperNoFind(t) ==
    /\ w[t].pc = "cas_upper"
    /\ LET i == w[t].link
           p == w[t].fr.preds[i]
           s == w[t].fr.succs[i]
       IN  IF nodes[p].next[i] = s
           THEN /\ nodes' = [nodes EXCEPT ![p].next[i] = w[t].new_node]
                /\ w' = IF i + 1 < w[t].height
                        THEN [w EXCEPT ![t].link = i + 1]
                        ELSE [w EXCEPT ![t].pc = "size_add"]
           ELSE /\ nodes' = nodes
                /\ w' = w
    /\ UNCHANGED <<height, size, leaked, r, ncalls, called, mtVars, walVars,
                   codecVars, sstVars>>

\* the compare_exchange of preds[i].next[i] from succs[i] to the new node;
\* on failure find runs again and the same level is retried
InsertCasUpper(t) ==
    /\ w[t].pc = "cas_upper"
    /\ LET i == w[t].link
           p == w[t].fr.preds[i]
           s == w[t].fr.succs[i]
       IN  IF nodes[p].next[i] = s
           THEN /\ nodes' = [nodes EXCEPT ![p].next[i] = w[t].new_node]
                /\ w' = IF i + 1 < w[t].height
                        THEN [w EXCEPT ![t].link = i + 1]
                        ELSE [w EXCEPT ![t].pc = "size_add"]
           ELSE /\ nodes' = nodes
                /\ w' = [w EXCEPT ![t].pc = "find_height"]
    /\ UNCHANGED <<height, size, leaked, r, ncalls, called, mtVars, walVars,
                   codecVars, sstVars>>

\* self.size.fetch_add(1), and insert returns
InsertSizeAdd(t) ==
    /\ w[t].pc = "size_add"
    /\ size' = size + 1
    /\ w' = [w EXCEPT ![t] = IdleWriter]
    /\ UNCHANGED <<nodes, height, leaked, r, ncalls, called, mtVars, walVars,
                   codecVars, sstVars>>

Insert(t) ==
    \/ InsertCall(t)
    \/ HeightLoad(t)
    \/ HeightCas(t)
    \/ InsertFindHeight(t)
    \/ InsertFindLoad(t)
    \/ InsertCasBottom(t)
    \/ InsertCasUpper(t)
    \/ InsertSizeAdd(t)

----------------------------------------------------------------------------
(* The lists the structure holds *)

\* the chain of forward pointers at a level, from a node on
RECURSIVE ChainFrom(_, _, _)
ChainFrom(mem, id, level) ==
    IF id = NULL THEN <<>>
    ELSE <<id>> \o ChainFrom(mem, mem[id].next[level], level)

\* the nodes reachable from the head at a level (the head excluded)
Chain(mem, level) == ChainFrom(mem, mem[HEAD].next[level], level)

SeqRange(s) == {s[i] : i \in DOMAIN s}

\* the newest version of k not above ts among the linked entries, or -1
NewestAtMost(mem, k, ts) ==
    LET vs == {mem[id].timestamp : id \in
                 {x \in SeqRange(Chain(mem, 0)) :
                     mem[x].user_key = k /\ mem[x].timestamp <= ts}}
    IN  IF vs = {} THEN -1 ELSE CHOOSE v \in vs : \A u \in vs : u <= v

----------------------------------------------------------------------------
(* SkipList::get, run by a reader thread *)

IdleReader ==
    [pc |-> "idle", user_key |-> <<>>, timestamp |-> 0, fr |-> IdleFrame,
     curr |-> NULL, result |-> NULL, floor |-> -1]

\* get that returns the first entry of the user key, whatever its version
GetWalkAnyVersion(rd, curr, mem) ==
    IF curr = NULL \/ mem[curr].user_key # rd.user_key
    THEN [rd EXCEPT !.pc = "returned", !.curr = NULL, !.result = NULL,
                    !.fr = IdleFrame]
    ELSE [rd EXCEPT !.pc = "returned", !.curr = NULL, !.result = curr,
                    !.fr = IdleFrame]

\* the walk of get from `curr` up to its next load of a forward pointer
GetWalk(rd, curr, mem) ==
    IF curr = NULL \/ mem[curr].user_key # rd.user_key
    THEN [rd EXCEPT !.pc = "returned", !.curr = NULL, !.result = NULL,
                    !.fr = IdleFrame]
    ELSE IF mem[curr].timestamp <= rd.timestamp
    THEN [rd EXCEPT !.pc = "returned", !.curr = NULL, !.result = curr,
                    !.fr = IdleFrame]
    ELSE [rd EXCEPT !.pc = "get_next", !.curr = curr, !.fr = IdleFrame]

\* entry of get; floor records what the list held when the call started
GetCall ==
    /\ r.pc \in {"idle", "returned"}
    /\ \E k \in Keys, ts \in 0..MaxTs :
         r' = [IdleReader EXCEPT !.pc = "find_height", !.user_key = k,
                                 !.timestamp = ts,
                                 !.floor = NewestAtMost(nodes, k, ts)]
    /\ UNCHANGED <<nodes, height, size, leaked, w, ncalls, called, mtVars, walVars,
                   codecVars, sstVars>>

GetFindHeight ==
    /\ r.pc = "find_height"
    /\ r' = [r EXCEPT !.fr = FindBegin(height, NoVec, NoVec), !.pc = "find_load"]
    /\ UNCHANGED <<nodes, height, size, leaked, w, ncalls, called, mtVars, walVars,
                   codecVars, sstVars>>

\* the search key of get is (user_key, u64::MAX)
GetFindLoad ==
    /\ r.pc = "find_load"
    /\ LET fr2 == FindStep(IKey(r.user_key, MaxTs), r.fr, nodes)
       IN  r' = IF fr2.done THEN GetWalk(r, fr2.succs[0], nodes)
                ELSE [r EXCEPT !.fr = fr2]
    /\ UNCHANGED <<nodes, height, size, leaked, w, ncalls, called, mtVars, walVars,
                   codecVars, sstVars>>

\* curr = curr_ref.next[0].load
GetNext ==
    /\ r.pc = "get_next"
    /\ r' = GetWalk(r, nodes[r.curr].next[0], nodes)
    /\ UNCHANGED <<nodes, height, size, leaked, w, ncalls, called, mtVars, walVars,
                   codecVars, sstVars>>

Get == GetCall \/ GetFindHeight \/ GetFindLoad \/ GetNext

----------------------------------------------------------------------------
(* The skip list under concurrent writers and a reader *)

\* SkipList::new and MemTable::new
\* a thread that is in neither put nor delete
IdleCall ==
    [pc |-> "idle", user_key |-> <<>>, value |-> <<>>, operation |-> "Put",
     size_estimate |-> 0]

MemInit ==
    /\ nodes = <<HeadNode>>
    /\ height = 1
    /\ size = 0
    /\ leaked = 0
    /\ w = [t \in Writers |-> IdleWriter]
    /\ r = IdleReader
    /\ ncalls = 0
    /\ called = {}
    /\ memory_usage = 0
    /\ mt_result = "none"
    /\ writes = {}
    /\ mcall = [t \in Writers |-> IdleCall]
    /\ judged = <<>>

InitSL == MemInit /\ WalUnused /\ CodecUnused /\ SstUnused

\* the writer threads alone
NextSL == \E t \in Writers : Insert(t)

SpecSL == InitSL /\ [][NextSL]_vars

\* the writer threads under a scheduler that lets every thread that can
\* take a step take one eventually
SpecSLFair == SpecSL /\ \A t \in Writers : WF_vars(Insert(t))

\* one writer thread and a reader thread
NextGet == Insert(1) \/ Get

SpecGet == InitSL /\ [][NextGet]_vars

----------------------------------------------------------------------------
(* The same code run by one thread at a time: every compare_exchange finds *)
(* the value it expects.                                                   *)

RECURSIVE FindRun(_, _, _)
FindRun(key, fr, mem) ==
    IF fr.done THEN fr ELSE FindRun(key, FindStep(key, fr, mem), mem)

\* insert without the test of what find returned: the node is always linked
SeqInsertAlways(mem, hgt, sz, k, ts, op, val, h) ==
    LET hgt2 == IF h <= hgt THEN hgt ELSE h
        key == IKey(k, ts)
        fr == FindRun(key, FindBegin(hgt2, NullVec(h), NullVec(h)), mem)
        id == Len(mem) + 1
        nn == [NewNode(k, ts, op, val, h)
                 EXCEPT !.next = [i \in 0..(h - 1) |-> fr.succs[i]]]
        linked == [n \in DOMAIN mem |->
                     [mem[n] EXCEPT !.next =
                        [l \in DOMAIN mem[n].next |->
                           IF l < h /\ fr.preds[l] = n THEN id
                           ELSE mem[n].next[l]]]]
    IN  [nodes |-> Append(linked, nn), height |-> hgt2, size |-> sz + 1]

\* SkipList::insert, from entry to return
SeqInsert(mem, hgt, sz, k, ts, op, val, h) ==
    LET hgt2 == IF h <= hgt THEN hgt ELSE h
        key == IKey(k, ts)
        fr == FindRun(key, FindBegin(hgt2, NullVec(h), NullVec(h)), mem)
        id == Len(mem) + 1
        nn == [NewNode(k, ts, op, val, h)
                 EXCEPT !.next = [i \in 0..(h - 1) |-> fr.succs[i]]]
        linked == [n \in DOMAIN mem |->
                     [mem[n] EXCEPT !.next =
                        [l \in DOMAIN mem[n].next |->
                           IF l < h /\ fr.preds[l] = n THEN id
                           ELSE mem[n].next[l]]]]
    IN  IF FindFound(key, fr, mem)
        THEN [nodes |-> mem, height |-> hgt2, size |-> sz]
        ELSE [nodes |-> Append(linked, nn), height |-> hgt2, size |-> sz + 1]

RECURSIVE GetRun(_, _)
GetRun(rd, mem) ==
    IF rd.pc = "returned" THEN rd.result
    ELSE GetRun(GetWalk(rd, mem[rd.curr].next[0], mem), mem)

\* SkipList::get, from entry to return: the node whose (value, operation)
\* it returns, or NULL for None
SeqGet(mem, hgt, k, ts) ==
    LET rd == [IdleReader EXCEPT !.user_key = k, !.timestamp = ts]
        fr == FindRun(IKey(k, MaxTs), FindBegin(hgt, NoVec, NoVec), mem)
    IN  GetRun(GetWalk(rd, fr.succs[0], mem), mem)

\* the loop of scan without the test on seen_keys
RECURSIVE ScanWalkNoSeen(_, _, _, _, _, _)
ScanWalkNoSeen(mem, curr, end_key, timestamp, seen_keys, result) ==
    IF curr = NULL \/ BytesCmp(mem[curr].user_key, end_key) >= 0 THEN result
    ELSE ScanWalkNoSeen(mem, mem[curr].next[0], end_key, timestamp, seen_keys,
                        IF mem[curr].timestamp <= timestamp
                           /\ mem[curr].operation = "Put"
                        THEN Append(result, <<mem[curr].user_key, mem[curr].value>>)
                        ELSE result)

\* the loop of SkipList::scan over level 0, from the node curr on
RECURSIVE ScanWalk(_, _, _, _, _, _)
ScanWalk(mem, curr, end_key, timestamp, seen_keys, result) ==
    IF curr = NULL \/ BytesCmp(mem[curr].user_key, end_key) >= 0 THEN result
    ELSE IF mem[curr].timestamp <= timestamp
            /\ mem[curr].user_key \notin seen_keys
    THEN ScanWalk(mem, mem[curr].next[0], end_key, timestamp,
                  seen_keys \cup {mem[curr].user_key},
                  IF mem[curr].operation = "Put"
                  THEN Append(result, <<mem[curr].user_key, mem[curr].value>>)
                  ELSE result)
    ELSE ScanWalk(mem, mem[curr].next[0], end_key, timestamp, seen_keys, result)

\* SkipList::scan (and MemTable::scan, which calls it), from entry to return
Scan(mem, hgt, start_key, end_key, timestamp) ==
    LET fr == FindRun(IKey(start_key, timestamp), FindBegin(hgt, NoVec, NoVec), mem)
    IN  ScanWalk(mem, fr.succs[0], end_key, timestamp, {}, <<>>)

\* Option<(Value, Operation)>
Returned(mem, id) ==
    IF id = NULL THEN "None" ELSE <<mem[id].value, mem[id].operation>>

----------------------------------------------------------------------------
(* MemTable (memtable/mod.rs), used by one thread *)

\* the 64 bytes of overhead in the size estimate
Overhead == 64

\* a counter that takes only the estimates of the calls that return Ok
AccountOkOnly(size_estimate) ==
    /\ memory_usage' = IF memory_usage + size_estimate > MemTableSize
                       THEN memory_usage
                       ELSE memory_usage + size_estimate
    /\ mt_result' = IF memory_usage + size_estimate > MemTableSize
                    THEN "MemTableFull" ELSE "Ok"

\* an addition that is lost when two calls are between insert and fetch_add
AccountLostUpdate(size_estimate) ==
    /\ memory_usage' = IF \A t \in Writers : mcall[t].pc = "account"
                       THEN memory_usage
                       ELSE memory_usage + size_estimate
    /\ mt_result' = IF memory_usage + size_estimate > MemTableSize
                    THEN "MemTableFull" ELSE "Ok"

\* the tail of put and delete: fetch_add returns the previous usage
Account(size_estimate) ==
    /\ memory_usage' = memory_usage + size_estimate
    /\ mt_result' = IF memory_usage + size_estimate > MemTableSize
                    THEN "MemTableFull" ELSE "Ok"

\* the insert made only when the call is not going to return MemTableFull
MemInsertUnlessFull(k, ts, op, val, h) ==
    LET res == IF memory_usage + Len(k) + Len(val) + Overhead > MemTableSize
               THEN [nodes |-> nodes, height |-> height, size |-> size]
               ELSE SeqInsert(nodes, height, size, k, ts, op, val, h)
    IN  /\ nodes' = res.nodes
        /\ height' = res.height
        /\ size' = res.size
        /\ writes' = writes \cup {[user_key |-> k, timestamp |-> ts,
                                   operation |-> op, value |-> val]}
        /\ ncalls' = ncalls + 1

\* the insert made with the Put tag whatever the operation
MemInsertPutOnly(k, ts, op, val, h) ==
    LET res == SeqInsert(nodes, height, size, k, ts, "Put", val, h)
    IN  /\ nodes' = res.nodes
        /\ height' = res.height
        /\ size' = res.size
        /\ writes' = writes \cup {[user_key |-> k, timestamp |-> ts,
                                   operation |-> op, value |-> val]}
        /\ ncalls' = ncalls + 1

\* self.skiplist.insert(key, value, timestamp, operation)
MemInsert(k, ts, op, val, h) ==
    LET res == SeqInsert(nodes, height, size, k, ts, op, val, h)
    IN  /\ nodes' = res.nodes
        /\ height' = res.height
        /\ size' = res.size
        /\ writes' = writes \cup {[user_key |-> k, timestamp |-> ts,
                                   operation |-> op, value |-> val]}
        /\ ncalls' = ncalls + 1

\* MemTable::put
Put ==
    /\ ncalls < MaxWrites
    /\ \E k \in Keys, val \in Values, ts \in Versions, h \in Heights :
         /\ MemInsert(k, ts, "Put", val, h)
         /\ Account(Len(k) + Len(val) + Overhead)
    /\ UNCHANGED <<leaked, w, r, called, mcall, judged, walVars, codecVars, sstVars>>

\* MemTable::delete
Delete ==
    /\ ncalls < MaxWrites
    /\ \E k \in Keys, ts \in Versions, h \in Heights :
         /\ MemInsert(k, ts, "Delete", <<>>, h)
         /\ Account(Len(k) + Overhead)
    /\ UNCHANGED <<leaked, w, r, called, mcall, judged, walVars, codecVars, sstVars>>

\* MemTable::is_full
is_full == memory_usage >= MemTableSize

NextMT == Put \/ Delete

SpecMT == InitSL /\ [][NextMT]_vars

\* put and delete called from several threads. A call is two steps: the
\* insert into the skip list (taken whole here; its own interleavings are
\* those of SpecSL) and the fetch_add with the test of its result.

\* MemTable::put up to the fetch_add
PutInsert(t) ==
    /\ mcall[t].pc = "idle"
    /\ ncalls < MaxWrites
    /\ \E k \in Keys, val \in Values, ts \in Versions, h \in Heights :
         /\ MemInsert(k, ts, "Put", val, h)
         /\ mcall' = [mcall EXCEPT ![t] =
                        [pc |-> "account", user_key |-> k, value |-> val,
                         operation |-> "Put",
                         size_estimate |-> Len(k) + Len(val) + Overhead]]
    /\ UNCHANGED <<memory_usage, mt_result, judged, leaked, w, r, called,
                   walVars, codecVars, sstVars>>

\* MemTable::delete up to the fetch_add
DeleteInsert(t) ==
    /\ mcall[t].pc = "idle"
    /\ ncalls < MaxWrites
    /\ \E k \in Keys, ts \in Versions, h \in Heights :
         /\ MemInsert(k, ts, "Delete", <<>>, h)
         /\ mcall' = [mcall EXCEPT ![t] =
                        [pc |-> "account", user_key |-> k, value |-> <<>>,
                         operation |-> "Delete",
                         size_estimate |-> Len(k) + Overhead]]
    /\ UNCHANGED <<memory_usage, mt_result, judged, leaked, w, r, called,
                   walVars, codecVars, sstVars>>

\* the fetch_add, the comparison with max_size and the return
AccountReturn(t) ==
    /\ mcall[t].pc = "account"
    /\ Account(mcall[t].size_estimate)
    /\ judged' = Append(judged,
                    [user_key |-> mcall[t].user_key,
                     value |-> mcall[t].value,
                     operation |-> mcall[t].operation,
                     size_estimate |-> mcall[t].size_estimate,
                     new_usage |-> memory_usage,
                     result |-> mt_result',
                     overlap |-> \E u \in Writers \ {t} :
                                    mcall[u].pc = "account"])
    /\ mcall' = [mcall EXCEPT ![t] = IdleCall]
    /\ UNCHANGED <<slVars, writes, walVars, codecVars, sstVars>>

NextMTC == \E t \in Writers : PutInsert(t) \/ DeleteInsert(t) \/ AccountReturn(t)

SpecMTC == InitSL /\ [][NextMTC]_vars

----------------------------------------------------------------------------
(* Claims about the skip list and the MemTable *)

AllIdle == \A t \in Writers : w[t].pc = "idle"

Level0 == Chain(nodes, 0)

\* strictly increasing in the internal-key order
Sorted(mem, ch) ==
    \A i \in 1..(Len(ch) - 1) : Compare(KeyOf(mem[ch[i]]), KeyOf(mem[ch[i + 1]])) = -1

\* C1: once all of N concurrent insert calls with pairwise distinct internal
\* keys have returned, the level-0 chain holds exactly those N keys, in
\* strictly increasing internal-key order, and size() is N.
C1_DistinctInsertsAllLinked ==
    (AllIdle /\ Cardinality(called) = ncalls) =>
        /\ Len(Level0) = ncalls
        /\ {KeyOf(nodes[id]) : id \in SeqRange(Level0)} = called
        /\ Sorted(nodes, Level0)
        /\ size = ncalls

\* two inserts with distinct keys raced for the same predecessor (one bottom
\* CAS failed and was retried), and every call has returned
C1_Witness ==
    /\ AllIdle
    /\ ncalls = MaxInserts
    /\ Cardinality(called) = ncalls
    /\ leaked > 0
    /\ size = ncalls

\* C2: when several threads insert the same internal key, exactly one of
\* them links a node: no two linked nodes, and no two nodes of the level-0
\* chain, have equal internal keys, and once the calls have returned every
\* inserted key is on the chain exactly once.
C2_OneWinnerPerKey ==
    /\ \A i, j \in 2..Len(nodes) :
          i # j => Compare(KeyOf(nodes[i]), KeyOf(nodes[j])) # 0
    /\ \A i, j \in 1..Len(Level0) :
          i # j => Compare(KeyOf(nodes[Level0[i]]), KeyOf(nodes[Level0[j]])) # 0
    /\ AllIdle =>
          \A key \in called :
             Cardinality({i \in 1..Len(Level0) : KeyOf(nodes[Level0[i]]) = key}) = 1

\* both threads inserted the same internal key at the same time: one lost the
\* bottom CAS, searched again and returned without linking
C2_Witness ==
    /\ AllIdle
    /\ ncalls = 2
    /\ Cardinality(called) = 1
    /\ leaked = 1
    /\ Len(nodes) = 2

\* C3: a get(k, ts) that starts when an entry (k, v) with v <= ts is linked at
\* level 0 returns an entry of k with a version in v..ts, also while the
\* insert of (k, v) has not linked its upper levels or returned.
C3_GetSeesLinkedEntry ==
    (r.pc = "returned" /\ r.floor >= 0) =>
        /\ r.result # NULL
        /\ nodes[r.result].user_key = r.user_key
        /\ nodes[r.result].timestamp >= r.floor
        /\ nodes[r.result].timestamp <= r.timestamp

\* the get started after the bottom CAS of an insert that is still linking
\* its upper level, and returned that entry
C3_Witness ==
    /\ r.pc = "returned"
    /\ r.floor >= 0
    /\ w[1].pc = "cas_upper"
    /\ r.result = w[1].new_node
    /\ r.floor = nodes[r.result].timestamp

\* the entries written for k, when no two calls wrote the same version of k
\* differently
DistinctVersions(k) ==
    \A a, b \in writes :
       (a.user_key = k /\ b.user_key = k /\ a.timestamp = b.timestamp) => a = b

\* what an MVCC read of the written entries yields
Expected(k, ts) ==
    LET c == {a \in writes : a.user_key = k /\ a.timestamp <= ts}
    IN  IF c = {} THEN "None"
        ELSE LET a == CHOOSE x \in c : \A y \in c : y.timestamp <= x.timestamp
             IN  <<a.value, a.operation>>

\* C4: after any sequence of put/delete calls that wrote k at distinct
\* versions, get(k, ts) returns the (value, op) of the entry of k with the
\* greatest version <= ts, and None when there is none.
C4_MvccRead ==
    \A k \in Keys, ts \in 0..MaxTs :
       DistinctVersions(k) =>
          Returned(nodes, SeqGet(nodes, height, k, ts)) = Expected(k, ts)

\* a key with two versions, read at the older one and at the newer one, and
\* below both
C4_Witness ==
    \E k \in Keys, a, b \in writes :
       /\ a.user_key = k /\ b.user_key = k /\ a.timestamp < b.timestamp
       /\ DistinctVersions(k)
       /\ Returned(nodes, SeqGet(nodes, height, k, a.timestamp)) = <<a.value, a.operation>>
       /\ Returned(nodes, SeqGet(nodes, height, k, b.timestamp)) = <<b.value, b.operation>>
       /\ Returned(nodes, SeqGet(nodes, height, k, 0)) = "None"

----------------------------------------------------------------------------
(* Bytes.  A u32 that does not fit the model's integers is read as Huge,   *)
(* which is larger than every length the model can hold.                   *)

Huge == 256 * 256

U32LE(n) == <<n % 256, (n \div 256) % 256, (n \div 65536) % 256,
              (n \div 16777216) % 256>>
U64LE(n) == U32LE(n) \o <<0, 0, 0, 0>>

\* u32::from_le_bytes / get_u32_le on the four bytes after offset `at`
GetU32(b, at) ==
    IF b[at + 3] # 0 \/ b[at + 4] # 0 THEN Huge
    ELSE b[at + 1] + 256 * b[at + 2]

\* get_u64_le on the eight bytes after offset `at`
GetU64(b, at) ==
    IF \E i \in 3..8 : b[at + i] # 0 THEN Huge
    ELSE b[at + 1] + 256 * b[at + 2]

Drop(b, n) == SubSeq(b, n + 1, Len(b))
Take(b, n) == SubSeq(b, 1, n)

RECURSIVE Xor8(_, _)
Xor8(x, y) ==
    IF x = 0 THEN y ELSE IF y = 0 THEN x
    ELSE (((x % 2) + (y % 2)) % 2) + 2 * Xor8(x \div 2, y \div 2)

Xor4Tab == [x \in 0..15 |-> [y \in 0..15 |-> Xor8(x, y)]]
XorByte(x, y) == 16 * Xor4Tab[x \div 16][y \div 16] + Xor4Tab[x % 16][y % 16]

\* 32-bit words are four little-endian bytes
Xor32(x, y) == <<XorByte(x[1], y[1]), XorByte(x[2], y[2]),
                 XorByte(x[3], y[3]), XorByte(x[4], y[4])>>
Shr1(c) == <<(c[1] \div 2) + 128 * (c[2] % 2), (c[2] \div 2) + 128 * (c[3] % 2),
             (c[3] \div 2) + 128 * (c[4] % 2), c[4] \div 2>>

\* CRC-32 (IEEE), as crc32fast computes it: polynomial 0xEDB88320 reflected
CrcPoly == <<32, 131, 184, 237>>
AllOnes == <<255, 255, 255, 255>>

RECURSIVE CrcBits(_, _)
CrcBits(c, n) ==
    IF n = 0 THEN c
    ELSE CrcBits(IF c[1] % 2 = 1 THEN Xor32(Shr1(c), CrcPoly) ELSE Shr1(c), n - 1)

CrcTable == [i \in 0..255 |-> CrcBits(<<i, 0, 0, 0>>, 8)]

\* (the test on c[1] makes the running value be computed at every byte)
RECURSIVE CrcUpdate(_, _, _)
CrcUpdate(c, bytes, i) ==
    IF c[1] < 0 \/ i > Len(bytes) THEN c
    ELSE CrcUpdate(Xor32(CrcTable[XorByte(c[1], bytes[i])], <<c[2], c[3], c[4], 0>>),
                   bytes, i + 1)

Crc32(bytes) == Xor32(CrcUpdate(AllOnes, bytes, 1), AllOnes)

----------------------------------------------------------------------------
(* WALEntry (wal/log_entry.rs) *)

new_put(key, value, timestamp) ==
    [timestamp |-> timestamp, operation |-> "Put", key |-> key, value |-> value]

new_delete(key, timestamp) ==
    [timestamp |-> timestamp, operation |-> "Delete", key |-> key, value |-> <<>>]

\* the body with the operation byte counted from 0
EncodeBodyOpFromZero(e) ==
    U64LE(e.timestamp) \o <<IF e.operation = "Put" THEN 0 ELSE 1>>
        \o U32LE(Len(e.key)) \o e.key \o U32LE(Len(e.value)) \o e.value

\* everything after the checksum field
EncodeBody(e) ==
    U64LE(e.timestamp) \o <<IF e.operation = "Put" THEN 1 ELSE 2>>
        \o U32LE(Len(e.key)) \o e.key \o U32LE(Len(e.value)) \o e.value

\* WALEntry::encode
Encode(e) ==
    LET body == EncodeBody(e)
    IN  U32LE(Len(body) + 4) \o Crc32(body) \o body

Corruption(msg) == [kind |-> "corruption", msg |-> msg]

\* the fields after the operation byte; `c` is the cursor
DecodeKeyValue(timestamp, operation, c) ==
    IF Len(c) < 4 THEN [kind |-> "panic"]
    ELSE LET key_len == GetU32(c, 0)
             c2 == Drop(c, 4)
         IN  IF Len(c2) < key_len THEN Corruption("Key length exceeds data")
             ELSE LET c3 == Drop(c2, key_len)
                  IN  IF Len(c3) < 4 THEN [kind |-> "panic"]
                      ELSE LET value_len == GetU32(c3, 0)
                               c4 == Drop(c3, 4)
                           IN  IF Len(c4) < value_len
                               THEN Corruption("Value length exceeds data")
                               ELSE [kind |-> "entry",
                                     entry |-> [timestamp |-> timestamp,
                                                operation |-> operation,
                                                key |-> Take(c2, key_len),
                                                value |-> Take(c4, value_len)]]

\* decode without the comparison of the checksums
DecodeNoChecksum(data) ==
    IF Len(data) < 8 THEN Corruption("WAL entry too small")
    ELSE IF Len(data) # GetU32(data, 0) + 4
    THEN Corruption("WAL entry length mismatch")
    ELSE LET c == Drop(data, 8)
         IN  IF Len(c) < 9 THEN [kind |-> "panic"]
             ELSE IF c[9] \notin {1, 2} THEN Corruption("Invalid operation type")
             ELSE DecodeKeyValue(GetU64(c, 0),
                                 IF c[9] = 1 THEN "Put" ELSE "Delete",
                                 Drop(c, 9))

\* WALEntry::decode; the Buf getters panic when the cursor is too short
Decode(data) ==
    IF Len(data) < 8 THEN Corruption("WAL entry too small")
    ELSE IF Len(data) # GetU32(data, 0) + 4
    THEN Corruption("WAL entry length mismatch")
    ELSE IF SubSeq(data, 5, 8) # Crc32(Drop(data, 8))
    THEN Corruption("WAL entry checksum mismatch")
    ELSE LET c == Drop(data, 8)
         IN  IF Len(c) < 9 THEN [kind |-> "panic"]
             ELSE IF c[9] \notin {1, 2} THEN Corruption("Invalid operation type")
             ELSE DecodeKeyValue(GetU64(c, 0),
                                 IF c[9] = 1 THEN "Put" ELSE "Delete",
                                 Drop(c, 9))

\* the records the appending threads write, with their encodings
WalRecords == {new_put(<<1>>, <<7>>, 1), new_delete(<<1>>, 2),
               new_put(<<2>>, <<8, 9>>, 2)}
Encoded == [e \in WalRecords |-> Encode(e)]

RECURSIVE EncodeAll(_)
EncodeAll(es) == IF es = <<>> THEN <<>> ELSE Encoded[Head(es)] \o EncodeAll(Tail(es))

IsPrefix(x, y) == Len(x) <= Len(y) /\ Take(y, Len(x)) = x

----------------------------------------------------------------------------
(* WALWriter (wal/writer.rs).  A write to the BufWriter either stays in    *)
(* its buffer, or first spills the buffer to the file, or (a large write)    *)
(* also goes straight to the file: which one depends on the capacity left. *)

\* WALWriter::new, on a new file or on the log an earlier writer left on
\* disk: the tracked size starts at the length of the file
WalInit ==
    /\ sync_mode \in SyncModes
    /\ written \in {<<>>, <<new_put(<<2>>, <<8, 9>>, 2)>>}
    /\ osfile = EncodeAll(written)
    /\ initial_size = Len(osfile)
    /\ wal_size = Len(osfile)
    /\ synced = Len(osfile)
    /\ returned = Len(written)
    /\ lock = 0
    /\ wbuf = <<>>
    /\ app = [t \in Appenders |-> IdleAppender]
    /\ phase = "running"
    /\ reader = NewReader
    /\ sync_mark = 0
    /\ damage = 0

\* the size check with >= in place of >
AppendCallOffByOne(t) ==
    /\ phase = "running"
    /\ app[t].pc = "idle"
    /\ Len(written) + Cardinality({u \in Appenders : app[u].pc = "lock"}) < MaxAppends
    /\ \E e \in WalRecords :
         app' = [app EXCEPT ![t] =
                 IF wal_size + Len(Encoded[e]) >= WalSizeLimit
                 THEN [pc |-> "idle", entry |-> e, result |-> "WalFull"]
                 ELSE [pc |-> "lock", entry |-> e, result |-> "none"]]
    /\ UNCHANGED <<sync_mode, initial_size, wal_size, lock, wbuf, osfile, synced, phase, reader,
                   written, returned, sync_mark, damage, slVars, mtVars, codecVars, sstVars>>

\* append: encode and the size check, made before the mutex is taken; a
\* call that fails keeps its entry in `entry` for the record
AppendCall(t) ==
    /\ phase = "running"
    /\ app[t].pc = "idle"
    /\ Len(written) + Cardinality({u \in Appenders : app[u].pc = "lock"}) < MaxAppends
    /\ \E e \in WalRecords :
         app' = [app EXCEPT ![t] =
                 IF wal_size + Len(Encoded[e]) > WalSizeLimit
                 THEN [pc |-> "idle", entry |-> e, result |-> "WalFull"]
                 ELSE [pc |-> "lock", entry |-> e, result |-> "none"]]
    /\ UNCHANGED <<sync_mode, initial_size, wal_size, lock, wbuf, osfile, synced, phase, reader,
                   written, returned, sync_mark, damage, slVars, mtVars, codecVars, sstVars>>

\* the write made with write instead of write_all: the file takes only a part
AppendWritePartial(t) ==
    /\ phase = "running"
    /\ app[t].pc = "lock"
    /\ lock = 0
    /\ lock' = t
    /\ \E n \in 1..(Len(Encoded[app[t].entry]) - 1) :
         wbuf' = wbuf \o Take(Encoded[app[t].entry], n)
    /\ written' = Append(written, app[t].entry)
    /\ app' = [app EXCEPT ![t].pc = "mode"]
    /\ UNCHANGED <<sync_mode, initial_size, wal_size, osfile, synced, phase, reader, returned,
                   sync_mark, damage, slVars, mtVars, codecVars, sstVars>>

\* self.file.lock() and file.write_all(&encoded)
AppendWrite(t) ==
    /\ phase = "running"
    /\ app[t].pc = "lock"
    /\ lock = 0
    /\ lock' = t
    /\ \E how \in {"buffer", "spill", "direct"} :
         LET enc == Encoded[app[t].entry]
         IN  /\ wbuf' = IF how = "buffer" THEN wbuf \o enc
                        ELSE IF how = "spill" THEN enc ELSE <<>>
             /\ osfile' = IF how = "buffer" THEN osfile
                          ELSE IF how = "spill" THEN osfile \o wbuf
                          ELSE osfile \o wbuf \o enc
    /\ written' = Append(written, app[t].entry)
    /\ app' = [app EXCEPT ![t].pc = "mode"]
    /\ UNCHANGED <<sync_mode, initial_size, wal_size, synced, phase, reader, returned,
                   sync_mark, damage, slVars, mtVars, codecVars, sstVars>>

\* the match without its flush: every mode treated as None
AppendFlushSkipped(t) ==
    /\ phase = "running"
    /\ app[t].pc = "mode"
    /\ app' = [app EXCEPT ![t].pc = IF sync_mode = "Full" THEN "sync_all" ELSE "size"]
    /\ UNCHANGED <<sync_mode, initial_size, wal_size, lock, wbuf, osfile, synced, phase, reader,
                   written, returned, sync_mark, damage, slVars, mtVars, codecVars, sstVars>>

\* match self.sync_mode: file.flush() under Normal and Full
AppendFlush(t) ==
    /\ phase = "running"
    /\ app[t].pc = "mode"
    /\ IF sync_mode = "None"
       THEN /\ app' = [app EXCEPT ![t].pc = "size"]
            /\ UNCHANGED <<wbuf, osfile>>
       ELSE /\ osfile' = osfile \o wbuf
            /\ wbuf' = <<>>
            /\ app' = [app EXCEPT ![t].pc = IF sync_mode = "Full" THEN "sync_all"
                                        ELSE "size"]
    /\ UNCHANGED <<sync_mode, initial_size, wal_size, lock, synced, phase, reader, written, returned,
                   sync_mark, damage, slVars, mtVars, codecVars, sstVars>>

\* Full without its sync_all
AppendSyncAllSkipped(t) ==
    /\ phase = "running"
    /\ app[t].pc = "sync_all"
    /\ app' = [app EXCEPT ![t].pc = "size"]
    /\ UNCHANGED <<sync_mode, initial_size, wal_size, lock, wbuf, osfile, synced, phase, reader,
                   written, returned, sync_mark, damage, slVars, mtVars, codecVars, sstVars>>

\* file.get_ref().sync_all() under Full
AppendSyncAll(t) ==
    /\ phase = "running"
    /\ app[t].pc = "sync_all"
    /\ synced' = Len(osfile)
    /\ app' = [app EXCEPT ![t].pc = "size"]
    /\ UNCHANGED <<sync_mode, initial_size, wal_size, lock, wbuf, osfile, phase, reader, written, returned,
                   sync_mark, damage, slVars, mtVars, codecVars, sstVars>>

\* the tracked size stored instead of added to
AppendReturnStore(t) ==
    /\ phase = "running"
    /\ app[t].pc = "size"
    /\ wal_size' = Len(Encoded[app[t].entry])
    /\ lock' = 0
    /\ app' = [app EXCEPT ![t] = [pc |-> "idle", entry |-> <<>>, result |-> "Ok"]]
    /\ returned' = returned + 1
    /\ UNCHANGED <<sync_mode, initial_size, wbuf, osfile, synced, phase, reader,
                   written, sync_mark, damage, slVars, mtVars, codecVars, sstVars>>

\* self.size.fetch_add(entry_size); the guard is dropped and Ok(()) returned
AppendReturn(t) ==
    /\ phase = "running"
    /\ app[t].pc = "size"
    /\ wal_size' = wal_size + Len(Encoded[app[t].entry])
    /\ lock' = 0
    /\ app' = [app EXCEPT ![t] = [pc |-> "idle", entry |-> <<>>, result |-> "Ok"]]
    /\ returned' = returned + 1
    /\ UNCHANGED <<sync_mode, initial_size, wbuf, osfile, synced, phase, reader, written,
                   sync_mark, damage, slVars, mtVars, codecVars, sstVars>>

append(t) ==
    \/ AppendCall(t)
    \/ AppendWrite(t)
    \/ AppendFlush(t)
    \/ AppendSyncAll(t)
    \/ AppendReturn(t)

\* sync without its flush: sync_all on what the file already has
SyncNoFlush ==
    /\ phase = "running"
    /\ lock = 0
    /\ sync_mark < Len(written)
    /\ synced' = Len(osfile)
    /\ sync_mark' = Len(written)
    /\ UNCHANGED <<sync_mode, initial_size, wal_size, lock, wbuf, osfile, app, phase, reader,
                   written, returned, damage, slVars, mtVars, codecVars, sstVars>>

\* WALWriter::sync, called by another thread: lock, flush, sync_all
Sync ==
    /\ phase = "running"
    /\ lock = 0
    /\ sync_mark < Len(written)
    /\ osfile' = osfile \o wbuf
    /\ wbuf' = <<>>
    /\ synced' = Len(osfile')
    /\ sync_mark' = Len(written)
    /\ UNCHANGED <<sync_mode, initial_size, wal_size, lock, app, phase, reader, written, returned, damage,
                   slVars, mtVars, codecVars, sstVars>>

\* the writer is dropped: the BufWriter writes its buffer out
Close ==
    /\ phase = "running"
    /\ \A t \in Appenders : app[t].pc = "idle"
    /\ osfile' = osfile \o wbuf
    /\ wbuf' = <<>>
    /\ phase' = "closed"
    /\ app' = [t \in Appenders |-> IdleAppender]
    /\ UNCHANGED <<sync_mode, initial_size, wal_size, lock, synced, reader, written, returned, sync_mark,
                   damage, slVars, mtVars, codecVars, sstVars>>

\* the process dies: what the BufWriter holds is lost
ProcessCrash ==
    /\ phase = "running"
    /\ wbuf' = <<>>
    /\ phase' = "process_crashed"
    /\ lock' = 0
    /\ app' = [t \in Appenders |-> IdleAppender]
    /\ UNCHANGED <<sync_mode, initial_size, wal_size, osfile, synced, reader, written, returned, sync_mark,
                   damage, slVars, mtVars, codecVars, sstVars>>

\* the host dies: of the bytes the operating system had, those synced
\* survive, and any number of the bytes after them
HostCrash ==
    /\ phase = "running"
    /\ \E n \in synced..Len(osfile) : osfile' = Take(osfile, n)
    /\ wbuf' = <<>>
    /\ phase' = "host_crashed"
    /\ lock' = 0
    /\ app' = [t \in Appenders |-> IdleAppender]
    /\ UNCHANGED <<sync_mode, initial_size, wal_size, synced, reader, written, returned, sync_mark, damage,
                   slVars, mtVars, codecVars, sstVars>>

\* one byte of the closed file is changed on disk
Damage ==
    /\ phase = "closed"
    /\ reader = NewReader
    /\ \E at \in 1..Len(osfile) :
         /\ osfile' = [osfile EXCEPT ![at] = XorByte(osfile[at], 255)]
         /\ damage' = at
    /\ phase' = "damaged"
    /\ UNCHANGED <<sync_mode, initial_size, wal_size, lock, wbuf, synced, app, reader, written, returned,
                   sync_mark, slVars, mtVars, codecVars, sstVars>>

----------------------------------------------------------------------------
(* WALReader (wal/reader.rs) *)

\* read_entry that takes the length field to count itself
ReadEntryShort(file, pos) ==
    LET remaining == Len(file) - pos
    IN  IF remaining < 4 THEN [kind |-> "none", pos |-> Len(file)]
        ELSE LET length == GetU32(file, pos)
             IN  IF remaining < length
                 THEN [kind |-> "io_error", pos |-> Len(file)]
                 ELSE Decode(SubSeq(file, pos + 1, pos + length))
                          @@ [pos |-> pos + length]

\* read_entry that, when the file ends inside a record, leaves the reader
\* after the length field instead of at the end of the file
ReadEntryLenient(file, pos) ==
    LET remaining == Len(file) - pos
    IN  IF remaining < 4 THEN [kind |-> "none", pos |-> Len(file)]
        ELSE LET length == GetU32(file, pos)
             IN  IF remaining - 4 < length
                 THEN [kind |-> "io_error", pos |-> pos + 4]
                 ELSE Decode(SubSeq(file, pos + 1, pos + 4 + length))
                          @@ [pos |-> pos + 4 + length]

\* WALReader::read_entry at offset pos of the file: Ok(Some(entry)),
\* Ok(None), an Err, or a panic inside decode; with the offset it leaves
ReadEntry(file, pos) ==
    LET remaining == Len(file) - pos
    IN  IF remaining < 4 THEN [kind |-> "none", pos |-> Len(file)]
        ELSE LET length == GetU32(file, pos)
             IN  IF remaining - 4 < length
                 THEN [kind |-> "io_error", pos |-> Len(file)]
                 ELSE Decode(SubSeq(file, pos + 1, pos + 4 + length))
                          @@ [pos |-> pos + 4 + length]

\* WALReader::read_all: the entries up to the end of the file, or the first
\* error alone
RECURSIVE ReadAllFrom(_, _, _)
ReadAllFrom(file, pos, entries) ==
    LET e == CHOOSE x \in {ReadEntry(file, pos)} : TRUE
    IN  IF e.kind = "entry" THEN ReadAllFrom(file, e.pos, Append(entries, e.entry))
        ELSE IF e.kind = "none" THEN [kind |-> "ok", entries |-> entries]
        ELSE [kind |-> e.kind]

\* Iterator::next of WALReader
ReaderNext ==
    /\ phase # "running"
    /\ reader.all.kind = "none"
    /\ ~reader.ended
    /\ \E e \in {ReadEntry(osfile, reader.pos)} :
           reader' = IF e.kind = "none"
                 THEN [reader EXCEPT !.ended = TRUE, !.pos = e.pos]
                 ELSE [reader EXCEPT !.pos = e.pos,
                         !.items = Append(reader.items,
                                     IF e.kind = "entry"
                                     THEN [kind |-> "entry", entry |-> e.entry]
                                     ELSE [kind |-> e.kind])]
    /\ UNCHANGED <<sync_mode, initial_size, wal_size, lock, wbuf, osfile, synced, app, phase,
                   written, returned, sync_mark, damage, slVars, mtVars, codecVars, sstVars>>

\* read_all on a reader just opened
ReaderReadAll ==
    /\ phase # "running"
    /\ reader = NewReader
    /\ reader' = [reader EXCEPT !.all = ReadAllFrom(osfile, 0, <<>>)]
    /\ UNCHANGED <<sync_mode, initial_size, wal_size, lock, wbuf, osfile, synced, app, phase,
                   written, returned, sync_mark, damage, slVars, mtVars, codecVars, sstVars>>

InitWAL == MemInit /\ WalInit /\ CodecUnused /\ SstUnused

NextWAL ==
    \/ \E t \in Appenders : append(t)
    \/ Sync
    \/ Close
    \/ ProcessCrash
    \/ HostCrash
    \/ Damage
    \/ ReaderNext
    \/ ReaderReadAll

SpecWAL == InitWAL /\ [][NextWAL]_vars

----------------------------------------------------------------------------
(* Claims about the write-ahead log *)

\* the records whose append has returned Ok, in mutex order
ReturnedOk == Take(written, returned)

\* what the iterator has yielded so far agrees with the records es: item i
\* is record i, and at its end it has yielded at least all of them
Replays(es) ==
    /\ \A i \in 1..Len(reader.items) :
         i <= Len(es) => reader.items[i] = [kind |-> "entry", entry |-> es[i]]
    /\ reader.ended => Len(reader.items) >= Len(es)

\* C5: under SyncMode::Full every record whose append has returned Ok is in
\* the synced part of the file, so after a host crash its bytes are still in
\* the file and a replay yields it.
C5_FullAppendDurable ==
    sync_mode = "Full" =>
        /\ phase = "running" => IsPrefix(EncodeAll(ReturnedOk), Take(osfile, synced))
        /\ phase = "host_crashed" =>
             IsPrefix(EncodeAll(ReturnedOk), osfile) /\ Replays(ReturnedOk)

\* two appends returned under Full, the host crashed, the file was replayed
C5_Witness ==
    /\ sync_mode = "Full"
    /\ phase = "host_crashed"
    /\ returned = MaxAppends
    /\ reader.ended
    /\ Len(reader.items) = MaxAppends

\* C6: once sync() has returned, every record whose append returned before
\* that call is in the synced part of the file, under every sync mode, and
\* survives a host crash.
C6_SyncMakesDurable ==
    /\ phase = "running" =>
         IsPrefix(EncodeAll(Take(written, sync_mark)), Take(osfile, synced))
    /\ phase = "host_crashed" =>
         /\ IsPrefix(EncodeAll(Take(written, sync_mark)), osfile)
         /\ Replays(Take(written, sync_mark))

\* under SyncMode::None a record was appended, sync() was called, the host
\* crashed and the replay yielded the record
C6_Witness ==
    /\ sync_mode = "None"
    /\ sync_mark >= 1
    /\ phase = "host_crashed"
    /\ reader.ended
    /\ Len(reader.items) >= 1

\* C7: under SyncMode::Normal every record whose append has returned Ok has
\* left the BufWriter and is in the file as the operating system has it, so a
\* crash of the process does not lose it.
C7_NormalSurvivesProcessCrash ==
    sync_mode = "Normal" =>
        /\ phase = "running" => IsPrefix(EncodeAll(ReturnedOk), osfile)
        /\ phase = "process_crashed" =>
             IsPrefix(EncodeAll(ReturnedOk), osfile) /\ Replays(ReturnedOk)

\* two appends returned under Normal with nothing synced, the process
\* crashed, the file was replayed
C7_Witness ==
    /\ sync_mode = "Normal"
    /\ phase = "process_crashed"
    /\ returned = MaxAppends
    /\ synced = 0
    /\ reader.ended
    /\ Len(reader.items) = MaxAppends

\* the other half of C7, a state the model reaches: under Normal an append
\* returned, nothing was synced, the host crashed and the file is empty
C7_HostCrashLoses ==
    /\ sync_mode = "Normal"
    /\ phase = "host_crashed"
    /\ returned >= 1
    /\ sync_mark = 0
    /\ osfile = <<>>

\* C8: while threads append concurrently, the bytes written (the file
\* followed by what the BufWriter holds) are the encodings of the records
\* written, whole and one after the other, and every append that returned Ok
\* is among them once: the records written are those returned plus the one
\* of the thread holding the mutex.
C8_AppendsNotInterleaved ==
    phase = "running" =>
        /\ osfile \o wbuf = EncodeAll(written)
        /\ Len(written) = returned + (IF lock = 0 THEN 0 ELSE 1)

\* two threads are inside append at once: one has written its record and
\* still holds the mutex, the other has passed the size check and waits
C8_Witness ==
    /\ phase = "running"
    /\ \E t, u \in Appenders :
         /\ app[t].pc = "size"
         /\ app[u].pc = "lock"
         /\ lock = t
    /\ written # <<>>
    /\ osfile \o wbuf # <<>>

\* C9: a replay of a log that was closed and not damaged yields exactly the
\* records appended, equal to what was appended and in mutex order, through
\* read_all and through the iterator.
C9_ReplayYieldsAppended ==
    phase = "closed" =>
        /\ reader.all.kind # "none" =>
             reader.all = [kind |-> "ok", entries |-> written]
        /\ Replays(written)
        /\ Len(reader.items) <= Len(written)

\* a closed log of two records, replayed to its end by the iterator
C9_Witness ==
    /\ phase = "closed"
    /\ Len(written) = MaxAppends
    /\ reader.ended
    /\ Len(reader.items) = MaxAppends

\* the record of the log that holds byte `at` of the file
RECURSIVE RecordAt(_, _, _)
RecordAt(es, at, i) ==
    IF at <= Len(Encoded[Head(es)]) THEN i
    ELSE RecordAt(Tail(es), at - Len(Encoded[Head(es)]), i + 1)

\* C10: when record k of the log is the damaged one, the iterator yields
\* records 1..k-1, then an error, and nothing after it; read_all reports the
\* error.
C10_NothingAfterCorruption ==
    phase = "damaged" =>
        LET k == RecordAt(written, damage, 1)
        IN  /\ Len(reader.items) <= k
            /\ \A i \in 1..Len(reader.items) :
                 IF i < k
                 THEN reader.items[i] = [kind |-> "entry", entry |-> written[i]]
                 ELSE reader.items[i].kind # "entry"
            /\ reader.ended => Len(reader.items) = k
            /\ reader.all.kind # "ok"

\* how many of the records es, from the first on, lie wholly in n bytes
RECURSIVE WholeRecords(_, _)
WholeRecords(es, n) ==
    IF es = <<>> \/ Len(Encoded[Head(es)]) > n THEN 0
    ELSE 1 + WholeRecords(Tail(es), n - Len(Encoded[Head(es)]))

\* C11: when the log is cut at any byte offset, the iterator yields exactly
\* the records that lie wholly in the remaining bytes, in order, never the
\* partial record after them, and then ends: with no error when fewer than
\* four bytes follow the last whole record (none at all included), and
\* after one I/O error, with the reader at the end of the file, otherwise.
C11_TornTailReplay ==
    phase = "host_crashed" =>
        LET whole == WholeRecords(written, Len(osfile))
            rest == Len(osfile) - Len(EncodeAll(Take(written, whole)))
        IN  /\ osfile = Take(EncodeAll(written), Len(osfile))
            /\ \A i \in 1..Len(reader.items) :
                 IF i <= whole
                 THEN reader.items[i] = [kind |-> "entry", entry |-> written[i]]
                 ELSE /\ i = whole + 1
                      /\ rest >= 4
                      /\ reader.items[i] = [kind |-> "io_error"]
                      /\ reader.pos = Len(osfile)
            /\ reader.ended =>
                 Len(reader.items) = whole + (IF rest >= 4 THEN 1 ELSE 0)

\* a log of two records cut inside the body of the second: the iterator
\* yielded the first record and an I/O error, and ended
C11_Witness ==
    /\ phase = "host_crashed"
    /\ Len(written) = MaxAppends
    /\ WholeRecords(written, Len(osfile)) = 1
    /\ Len(osfile) >= Len(Encoded[written[1]]) + 8
    /\ reader.ended
    /\ reader.items = <<[kind |-> "entry", entry |-> written[1]],
                        [kind |-> "io_error"]>>

\* C12: an append call fails with the size-limit error exactly when the
\* tracked size it loads plus the encoded length of its record exceeds the
\* limit, and a call that fails writes nothing and leaves the tracked size
\* as it was.
C12_WalFullExactly ==
    [][\A t \in Appenders :
         (app[t].pc = "idle" /\ app'[t] # app[t] /\ phase' = "running") =>
             LET n == Len(Encoded[app'[t].entry])
             IN  /\ app'[t].result = "WalFull" <=> wal_size + n > WalSizeLimit
                 /\ app'[t].result # "WalFull" => app'[t].pc = "lock"
                 /\ app'[t].result = "WalFull" =>
                      /\ osfile' = osfile
                      /\ wbuf' = wbuf
                      /\ wal_size' = wal_size
                      /\ written' = written]_vars

\* after one record was appended, an append of a record that no longer fits
\* has failed
C12_Witness ==
    \E t \in Appenders :
       /\ app[t].result = "WalFull"
       /\ wal_size > 0
       /\ wal_size + Len(Encoded[app[t].entry]) > WalSizeLimit
       /\ osfile \o wbuf = EncodeAll(written)
       /\ Len(osfile \o wbuf) = wal_size

\* the records the file held when the writer opened it
Preexisting == WholeRecords(written, initial_size)

----------------------------------------------------------------------------
(* The record codec applied to records and to buffers with one byte        *)
(* changed (wal/log_entry.rs) *)

\* the records handed to encode: built by new_put and new_delete, among
\* them one with an empty key and value, and a Delete given a value
CodecRecords ==
    {new_put(k, v, ts) : k \in Keys, v \in Values, ts \in Versions}
        \cup {new_delete(k, ts) : k \in Keys, ts \in Versions}
        \cup {new_put(<<>>, <<>>, 0),
              [new_delete(<<1>>, 1) EXCEPT !.value = <<7>>]}

CodecInit ==
    /\ codec_entry \in CodecRecords
    /\ codec_data = <<>>
    /\ codec_at = 0
    /\ codec_result = [kind |-> "none"]

\* entry.encode()
CodecEncode ==
    /\ codec_data = <<>>
    /\ codec_data' = Encode(codec_entry)
    /\ UNCHANGED <<codec_entry, codec_at, codec_result, slVars, mtVars, walVars, sstVars>>

\* one byte of the encoded buffer is given another value
CodecMutate ==
    /\ codec_data # <<>>
    /\ codec_at = 0
    /\ codec_result.kind = "none"
    /\ \E at \in 1..Len(codec_data), b \in 0..255 :
         /\ b # codec_data[at]
         /\ codec_data' = [codec_data EXCEPT ![at] = b]
         /\ codec_at' = at
    /\ UNCHANGED <<codec_entry, codec_result, slVars, mtVars, walVars, sstVars>>

\* WALEntry::decode(&data)
CodecDecode ==
    /\ codec_data # <<>>
    /\ codec_result.kind = "none"
    /\ codec_result' = Decode(codec_data)
    /\ UNCHANGED <<codec_entry, codec_data, codec_at, slVars, mtVars, walVars, sstVars>>

InitCodec == MemInit /\ WalUnused /\ CodecInit /\ SstUnused

NextCodec == CodecEncode \/ CodecMutate \/ CodecDecode

SpecCodec == InitCodec /\ [][NextCodec]_vars

\* C14: decode(encode(r)) succeeds and equals r for every record r, and the
\* encoding has operation byte 1 for Put and 2 for Delete (at offset 16,
\* after the length, the checksum and the version).
C14_RoundTrip ==
    /\ (codec_data # <<>> /\ codec_at = 0) =>
          codec_data[17] = (IF codec_entry.operation = "Put" THEN 1 ELSE 2)
    /\ (codec_result.kind # "none" /\ codec_at = 0) =>
          codec_result = [kind |-> "entry", entry |-> codec_entry]

\* a tombstone encoded and decoded back
C14_Witness ==
    /\ codec_entry.operation = "Delete"
    /\ codec_at = 0
    /\ codec_result = [kind |-> "entry", entry |-> codec_entry]

\* C15: decode of an encoded record with any one byte at an offset >= 4 (the
\* checksum field or the body) given any other value returns
\* Error::Corruption, never a record.
C15_ByteChangeDetected ==
    (codec_at >= 5 /\ codec_result.kind # "none") =>
        codec_result.kind = "corruption"

\* a byte of the body changed (offset 20, the key length) and decode
\* answered with the checksum mismatch
C15_Witness ==
    /\ codec_at = 21
    /\ codec_result = Corruption("WAL entry checksum mismatch")

----------------------------------------------------------------------------
(* More claims about the MemTable *)

\* the operation of the entry get(k, ts) returns on the list (mem, hgt), or
\* "None"
GetOp(mem, hgt, k, ts) ==
    LET id == SeqGet(mem, hgt, k, ts)
    IN  IF id = NULL THEN "None" ELSE mem[id].operation

\* the list holds an entry of k with a version in lo..hi
HasVersionIn(mem, k, lo, hi) ==
    \E i \in SeqRange(Chain(mem, 0)) :
       mem[i].user_key = k /\ mem[i].timestamp >= lo /\ mem[i].timestamp <= hi

\* what a step that is a delete(k, v_d) call does to the reads of k
DeleteEffect(d) ==
    /\ \A ts \in 0..MaxTs :
         ts < d.timestamp =>
            SeqGet(nodes', height', d.user_key, ts)
               = SeqGet(nodes, height, d.user_key, ts)
    /\ \A ts \in d.timestamp..MaxTs :
         ~HasVersionIn(nodes', d.user_key, d.timestamp + 1, ts) =>
            GetOp(nodes', height', d.user_key, ts) = "Delete"

ScanBounds == Keys \cup {<<3>>}

\* the user keys ks in ascending order
RECURSIVE Ascending(_)
Ascending(ks) ==
    IF ks = {} THEN <<>>
    ELSE LET k == CHOOSE x \in ks : \A y \in ks : BytesCmp(x, y) <= 0
         IN  <<k>> \o Ascending(ks \ {k})

\* the pairs (k, value) of the keys of ks, in order, whose get(k, ts) is a Put
RECURSIVE PutsOf(_, _)
PutsOf(ks, ts) ==
    IF ks = <<>> THEN <<>>
    ELSE LET id == SeqGet(nodes, height, Head(ks), ts)
         IN  (IF id # NULL /\ nodes[id].operation = "Put"
              THEN <<<<Head(ks), nodes[id].value>>>> ELSE <<>>)
                 \o PutsOf(Tail(ks), ts)

\* C17: scan(a, b, ts) returns, in ascending order of user key, exactly the
\* pairs (k, value) of the user keys k with a <= k < b for which get(k, ts)
\* returns (value, Put): one pair per such key, none for a key whose newest
\* version <= ts is a tombstone, none for a key outside [a, b).
C17_ScanMatchesGet ==
    \A a, b \in ScanBounds, ts \in 0..MaxTs :
       Scan(nodes, height, a, b, ts)
          = PutsOf(Ascending({k \in Keys : BytesCmp(a, k) <= 0
                                            /\ BytesCmp(k, b) < 0}), ts)

\* a key with a put and a newer tombstone: a scan over all keys at the
\* tombstone's version returns nothing, at the put's version the put
C17_Witness ==
    \E p, d \in writes :
       /\ p.operation = "Put" /\ d.operation = "Delete"
       /\ p.user_key = d.user_key /\ p.timestamp < d.timestamp
       /\ Scan(nodes, height, <<1>>, <<3>>, d.timestamp) = <<>>
       /\ Scan(nodes, height, <<1>>, <<3>>, p.timestamp)
             = <<<<p.user_key, p.value>>>>

\* the list holds an entry with this (user_key, version, operation)
Present(mem, k, ts, op) ==
    \E i \in SeqRange(Chain(mem, 0)) :
       mem[i].user_key = k /\ mem[i].timestamp = ts /\ mem[i].operation = op

\* every get and every scan gives the same on the list before and after a
\* step
ReadsUnchanged ==
    /\ \A k \in Keys, ts \in 0..MaxTs :
         SeqGet(nodes', height', k, ts) = SeqGet(nodes, height, k, ts)
    /\ \A a, b \in ScanBounds, ts \in 0..MaxTs :
         Scan(nodes', height', a, b, ts) = Scan(nodes, height, a, b, ts)

\* C18: no two entries of the MemTable have the same (user_key, version,
\* operation), and a put or delete whose (user_key, version, operation) is
\* already present (a repeated call, or one with another value) leaves the
\* entries, their count and the result of every get and scan unchanged.
C18_NoDuplicateEntries ==
    /\ [](\A i, j \in SeqRange(Level0) :
            (nodes[i].user_key = nodes[j].user_key
               /\ nodes[i].timestamp = nodes[j].timestamp
               /\ nodes[i].operation = nodes[j].operation) => i = j)
    /\ [][(ncalls' = ncalls + 1
             /\ \/ writes' = writes
                \/ \E d \in writes' \ writes :
                      Present(nodes, d.user_key, d.timestamp, d.operation))
          => (nodes' = nodes /\ size' = size /\ ReadsUnchanged)]_vars

\* two puts of the same key at the same version with different values: the
\* MemTable holds one entry, the first
C18_Witness ==
    /\ ncalls = 2
    /\ size = 1
    /\ Len(Level0) = 1
    /\ \E a, b \in writes :
         /\ a # b
         /\ a.user_key = b.user_key /\ a.timestamp = b.timestamp
         /\ a.operation = "Put" /\ b.operation = "Put"
         /\ memory_usage = Len(a.user_key) + Len(a.value) + Overhead
                             + Len(b.user_key) + Len(b.value) + Overhead

RECURSIVE SumEstimates(_, _)
\* the estimates of the first n calls in fetch_add order, added up
SumEstimates(js, n) ==
    IF n = 0 THEN 0 ELSE SumEstimates(js, n - 1) + js[n].size_estimate

\* C19: every put is judged with the estimate len(key) + len(value) + 64 and
\* every delete with len(key) + 64; the call returns MemTableFull exactly
\* when the counter value it got from fetch_add plus its estimate exceeds
\* the limit, and Ok otherwise; the counter value a call gets is the sum of
\* the estimates of the calls whose fetch_add came before, so that no two
\* calls, overlapping or not, are judged against the same value.
C19_FullExactlyOverLimit ==
    /\ \A i \in 1..Len(judged) :
         /\ judged[i].size_estimate =
              IF judged[i].operation = "Put"
              THEN Len(judged[i].user_key) + Len(judged[i].value) + Overhead
              ELSE Len(judged[i].user_key) + Overhead
         /\ judged[i].new_usage = SumEstimates(judged, i - 1)
         /\ judged[i].result =
              IF SumEstimates(judged, i) > MemTableSize
              THEN "MemTableFull" ELSE "Ok"
         /\ \A j \in 1..Len(judged) :
              i # j => judged[i].new_usage # judged[j].new_usage
    /\ memory_usage = SumEstimates(judged, Len(judged))

\* a put and a delete were both between insert and fetch_add; the first to
\* reach fetch_add returned Ok and the other MemTableFull
C19_Witness ==
    /\ Len(judged) = 2
    /\ judged[1].overlap
    /\ judged[1].operation # judged[2].operation
    /\ judged[1].result = "Ok"
    /\ judged[2].result = "MemTableFull"
    /\ judged[2].new_usage = judged[1].size_estimate

\* C20: is_full() is true exactly when the bytes counted so far are at or
\* over the limit; the counter never decreases; from the state in which a
\* put or delete returned MemTableFull on, is_full() is true, and every put
\* or delete judged after it returns MemTableFull as well.
C20_FullIsPermanent ==
    /\ [](is_full <=> SumEstimates(judged, Len(judged)) >= MemTableSize)
    /\ [][memory_usage' >= memory_usage]_vars
    /\ []((\E i \in 1..Len(judged) : judged[i].result = "MemTableFull")
            => is_full)
    /\ [][is_full => is_full']_vars
    /\ [](\A i, j \in 1..Len(judged) :
            (i < j /\ judged[i].result = "MemTableFull")
               => judged[j].result = "MemTableFull")

\* the first call returned MemTableFull, and a call made after it returned
\* MemTableFull too
C20_Witness ==
    /\ Len(judged) = 2
    /\ ~judged[1].overlap
    /\ judged[1].result = "MemTableFull"
    /\ judged[2].result = "MemTableFull"
    /\ mt_result = "MemTableFull"
    /\ is_full
    /\ \A t \in Writers : mcall[t].pc = "idle"

----------------------------------------------------------------------------
(* SSTable: format types *)

MaxAdds == 3
MAX_ENTRY_SIZE == 16777216
FOOTER_SIZE == 40

\* SSTABLE_MAGIC = 0x46455252_49534442 as its two 32-bit halves
SSTABLE_MAGIC == [hi |-> 1178948178, lo |-> 1230193730]

\* target block sizes: every entry alone, two entries together, one block
BlockSizes == {1, 40, 4096}

\* sstable::InternalKey::cmp: user key ascending, newer timestamp first
SstCmp(a, b) ==
    LET c == BytesCmp(a.user_key, b.user_key)
    IN  IF c = 0 THEN IntCmp(b.timestamp, a.timestamp) ELSE c

\* InternalKey::new
SstKey(k, ts, op) == [user_key |-> k, timestamp |-> ts, operation |-> op]

\* SSTableEntry::new
SstEntry(key, val) == [key |-> key, value |-> val]

\* SSTableEntry::serialized_size over InternalKey::serialized_size
SerializedSize(e) == (4 + 8 + Len(e.key.user_key)) + 4 + Len(e.value) + 1

\* the entries a caller may pass to add
SstInputs ==
    {SstEntry(SstKey(k, ts, "Put"), v) : k \in Keys, ts \in 1..2, v \in Values}
      \cup {SstEntry(SstKey(k, ts, "Delete"), <<>>) : k \in Keys, ts \in 1..2}

\* u32::from_le_bytes in full; -1 stands for the values of 2^31 and over
U32Full(b, at) ==
    IF b[at + 4] >= 128 THEN -1
    ELSE b[at + 1] + 256 * b[at + 2] + 65536 * b[at + 3] + 16777216 * b[at + 4]

\* Footer::new
NewFooter(index_offset, index_length, bloom_offset, bloom_length) ==
    [index_offset |-> index_offset, index_length |-> index_length,
     bloom_offset |-> bloom_offset, bloom_length |-> bloom_length,
     magic |-> SSTABLE_MAGIC]

\* u64::to_le_bytes of the magic field
MagicBytes(m) == U32LE(m.lo) \o U32LE(m.hi)

\* Footer::to_bytes
FooterToBytes(f) ==
    U64LE(f.index_offset) \o U64LE(f.index_length) \o U64LE(f.bloom_offset)
      \o U64LE(f.bloom_length) \o MagicBytes(f.magic)

\* a footer whose magic field is not looked at
FooterFromBytesAnyMagic(bytes) ==
    IF Len(bytes) # FOOTER_SIZE
    THEN [kind |-> "InvalidFormat"]
    ELSE [kind |-> "Ok",
          footer |-> [index_offset |-> GetU64(bytes, 0),
                      index_length |-> GetU64(bytes, 8),
                      bloom_offset |-> GetU64(bytes, 16),
                      bloom_length |-> GetU64(bytes, 24),
                      magic |-> [hi |-> U32Full(bytes, 36),
                                 lo |-> U32Full(bytes, 32)]]]

\* Footer::from_bytes
FooterFromBytes(bytes) ==
    IF Len(bytes) # FOOTER_SIZE
    THEN [kind |-> "InvalidFormat"]
    ELSE LET magic == [hi |-> U32Full(bytes, 36), lo |-> U32Full(bytes, 32)]
         IN  IF magic # SSTABLE_MAGIC
             THEN [kind |-> "InvalidFormat"]
             ELSE [kind |-> "Ok",
                   footer |-> [index_offset |-> GetU64(bytes, 0),
                               index_length |-> GetU64(bytes, 8),
                               bloom_offset |-> GetU64(bytes, 16),
                               bloom_length |-> GetU64(bytes, 24),
                               magic |-> magic]]

----------------------------------------------------------------------------
(* SSTable: writer *)

\* SSTableWriter::with_block_size
NewWriter(block_size) ==
    [state |-> "building", file_offset |-> 0, current_block |-> <<>>,
     current_block_size |-> 0, block_size |-> block_size,
     index_entries |-> <<>>, entry_count |-> 0, smallest_key |-> None,
     largest_key |-> None, last_key |-> None, finished |-> FALSE]

\* the writer after finish(self) has taken it
ConsumedWriter(wr) == [wr EXCEPT !.state = "consumed"]

\* the operation bytes of the WAL record used for the SSTable entry
SstOpByteAsWal(op) == IF op = "Put" THEN 1 ELSE 2

\* the operation byte of the SSTable entry format
SstOpByte(op) == IF op = "Put" THEN 0 ELSE 1

\* SSTableWriter::write_entry: the bytes
WriteEntry(e) ==
    U32LE(Len(e.key.user_key)) \o U32LE(Len(e.value))
      \o U64LE(e.key.timestamp) \o <<SstOpByte(e.key.operation)>>
      \o e.key.user_key \o e.value

\* SSTableWriter::write_entry: what it adds to file_offset
WrittenSize(e) == 4 + 4 + 8 + 1 + Len(e.key.user_key) + Len(e.value)

RECURSIVE WriteEntries(_)
\* the loop of flush_block over current_block: the bytes
WriteEntries(es) ==
    IF es = <<>> THEN <<>>
    ELSE WriteEntry(Head(es)) \o WriteEntries(Tail(es))

RECURSIVE WrittenSizes(_)
\* the loop of flush_block over current_block: file_offset
WrittenSizes(es) ==
    IF es = <<>> THEN 0 ELSE WrittenSize(Head(es)) + WrittenSizes(Tail(es))

\* IndexEntry::new
IndexEntry(block_offset, first_key) ==
    [block_offset |-> block_offset, first_key |-> first_key]

\* SSTableWriter::flush_block on the pair (writer, file)
FlushBlock(st) ==
    IF st.w.current_block = <<>> THEN st
    ELSE LET blk == st.w.current_block
             first_key == blk[1].key.user_key
             block_offset == st.w.file_offset
         IN  [w |-> [st.w EXCEPT
                       !.file_offset = @ + 4 + WrittenSizes(blk) + 4,
                       !.index_entries =
                           Append(@, IndexEntry(block_offset, first_key)),
                       !.current_block = <<>>,
                       !.current_block_size = 0],
              file |-> st.file \o U32LE(Len(blk)) \o WriteEntries(blk)
                         \o U32LE(0)]

RECURSIVE WriteIndexEntries(_)
\* the loop of write_index_block
WriteIndexEntries(ies) ==
    IF ies = <<>> THEN <<>>
    ELSE U64LE(Head(ies).block_offset) \o U32LE(Len(Head(ies).first_key))
           \o Head(ies).first_key \o WriteIndexEntries(Tail(ies))

\* SSTableWriter::write_index_block: the bytes
IndexBlockBytes(ies) == U32LE(Len(ies)) \o WriteIndexEntries(ies) \o U32LE(0)

\* SSTableWriter::write_bloom_filter: the bytes
BloomBytes == <<0, 0, 0, 0, 0, 0, 0, 0>> \o U32LE(0) \o U32LE(0)

\* add that records the key as the last key before the ordering test
AddRunRemembersRejected(st, key, val) ==
    IF st.w.finished THEN [st |-> st, res |-> [kind |-> "ResourceConsumed"]]
    ELSE IF Len(key.user_key) > MAX_ENTRY_SIZE \/ Len(val) > MAX_ENTRY_SIZE
    THEN [st |-> st, res |-> [kind |-> "EntrySizeExceeded"]]
    ELSE IF st.w.last_key # None /\ SstCmp(key, st.w.last_key[1]) <= 0
    THEN [st |-> [st EXCEPT !.w.last_key = Some(key)],
          res |-> [kind |-> "KeyOrderingViolation"]]
    ELSE LET entry == SstEntry(key, val)
             entry_size == SerializedSize(entry)
             w1 == [st.w EXCEPT
                      !.smallest_key = IF @ = None THEN Some(key) ELSE @,
                      !.largest_key = Some(key)]
             st1 == [st EXCEPT !.w = w1]
             st2 == IF w1.current_block # <<>>
                       /\ w1.current_block_size + entry_size > w1.block_size
                    THEN FlushBlock(st1) ELSE st1
         IN  [st |-> [st2 EXCEPT
                        !.w.current_block = Append(@, entry),
                        !.w.current_block_size = @ + entry_size,
                        !.w.entry_count = @ + 1,
                        !.w.last_key = Some(key)],
              res |-> [kind |-> "Ok"]]

\* add when the ordering test lets every key through
AddRunUnordered(st, key, val) ==
    IF st.w.finished THEN [st |-> st, res |-> [kind |-> "ResourceConsumed"]]
    ELSE IF Len(key.user_key) > MAX_ENTRY_SIZE \/ Len(val) > MAX_ENTRY_SIZE
    THEN [st |-> st, res |-> [kind |-> "EntrySizeExceeded"]]
    ELSE LET entry == SstEntry(key, val)
             entry_size == SerializedSize(entry)
             w1 == [st.w EXCEPT
                      !.smallest_key = IF @ = None THEN Some(key) ELSE @,
                      !.largest_key = Some(key)]
             st1 == [st EXCEPT !.w = w1]
             st2 == IF w1.current_block # <<>>
                       /\ w1.current_block_size + entry_size > w1.block_size
                    THEN FlushBlock(st1) ELSE st1
         IN  [st |-> [st2 EXCEPT
                        !.w.current_block = Append(@, entry),
                        !.w.current_block_size = @ + entry_size,
                        !.w.entry_count = @ + 1,
                        !.w.last_key = Some(key)],
              res |-> [kind |-> "Ok"]]

\* add with an ordering test that lets a key equal to the last one through
AddRunAllowsEqual(st, key, val) ==
    IF st.w.finished THEN [st |-> st, res |-> [kind |-> "ResourceConsumed"]]
    ELSE IF Len(key.user_key) > MAX_ENTRY_SIZE \/ Len(val) > MAX_ENTRY_SIZE
    THEN [st |-> st, res |-> [kind |-> "EntrySizeExceeded"]]
    ELSE IF st.w.last_key # None /\ SstCmp(key, st.w.last_key[1]) < 0
    THEN [st |-> st, res |-> [kind |-> "KeyOrderingViolation"]]
    ELSE LET entry == SstEntry(key, val)
             entry_size == SerializedSize(entry)
             w1 == [st.w EXCEPT
                      !.smallest_key = IF @ = None THEN Some(key) ELSE @,
                      !.largest_key = Some(key)]
             st1 == [st EXCEPT !.w = w1]
             st2 == IF w1.current_block # <<>>
                       /\ w1.current_block_size + entry_size > w1.block_size
                    THEN FlushBlock(st1) ELSE st1
         IN  [st |-> [st2 EXCEPT
                        !.w.current_block = Append(@, entry),
                        !.w.current_block_size = @ + entry_size,
                        !.w.entry_count = @ + 1,
                        !.w.last_key = Some(key)],
              res |-> [kind |-> "Ok"]]

\* SSTableWriter::add on the pair (writer, file)
AddRun(st, key, val) ==
    IF st.w.finished THEN [st |-> st, res |-> [kind |-> "ResourceConsumed"]]
    ELSE IF Len(key.user_key) > MAX_ENTRY_SIZE \/ Len(val) > MAX_ENTRY_SIZE
    THEN [st |-> st, res |-> [kind |-> "EntrySizeExceeded"]]
    ELSE IF st.w.last_key # None /\ SstCmp(key, st.w.last_key[1]) <= 0
    THEN [st |-> st, res |-> [kind |-> "KeyOrderingViolation"]]
    ELSE LET entry == SstEntry(key, val)
             entry_size == SerializedSize(entry)
             w1 == [st.w EXCEPT
                      !.smallest_key = IF @ = None THEN Some(key) ELSE @,
                      !.largest_key = Some(key)]
             st1 == [st EXCEPT !.w = w1]
             st2 == IF w1.current_block # <<>>
                       /\ w1.current_block_size + entry_size > w1.block_size
                    THEN FlushBlock(st1) ELSE st1
         IN  [st |-> [st2 EXCEPT
                        !.w.current_block = Append(@, entry),
                        !.w.current_block_size = @ + entry_size,
                        !.w.entry_count = @ + 1,
                        !.w.last_key = Some(key)],
              res |-> [kind |-> "Ok"]]

\* SSTableWriter::finish on the pair (writer, file)
FinishRun(st) ==
    IF st.w.finished THEN [st |-> st, res |-> [kind |-> "ResourceConsumed"]]
    ELSE LET st1 == IF st.w.current_block # <<>> THEN FlushBlock(st) ELSE st
             index_offset == st1.w.file_offset
             index == IndexBlockBytes(st1.w.index_entries)
             index_length == Len(index)
             bloom_offset == index_offset + index_length
             bloom_length == Len(BloomBytes)
             footer == NewFooter(index_offset, index_length, bloom_offset,
                                 bloom_length)
             file_size == bloom_offset + bloom_length
                            + Len(FooterToBytes(footer))
             w2 == [st1.w EXCEPT !.file_offset = file_size,
                                 !.finished = TRUE]
         IN  [st |-> [w |-> w2,
                      file |-> st1.file \o index \o BloomBytes
                                 \o FooterToBytes(footer)],
              res |-> IF w2.smallest_key = None \/ w2.largest_key = None
                      THEN [kind |-> "EmptyOperation"]
                      ELSE [kind |-> "Ok", file_size |-> file_size,
                            entry_count |-> w2.entry_count,
                            smallest_key |-> w2.smallest_key[1],
                            largest_key |-> w2.largest_key[1]]]

\* writer.add(key, value)
SstAdd ==
    /\ sst_w.state = "building"
    /\ sst_calls < MaxAdds
    /\ \E e \in SstInputs :
         LET run == AddRun([w |-> sst_w, file |-> sst_file], e.key, e.value)
         IN  /\ sst_w' = run.st.w
             /\ sst_file' = run.st.file
             /\ sst_res' = run.res @@ [call |-> "add", entry |-> Some(e)]
             /\ sst_added' = IF run.res.kind = "Ok" THEN Append(sst_added, e)
                             ELSE sst_added
    /\ sst_calls' = sst_calls + 1
    /\ UNCHANGED <<sst_rd, sst_it, sst_out, slVars, mtVars, walVars,
                   codecVars>>

\* writer.finish()
SstFinish ==
    /\ sst_w.state = "building"
    /\ LET run == FinishRun([w |-> sst_w, file |-> sst_file])
       IN  /\ sst_w' = ConsumedWriter(run.st.w)
           /\ sst_file' = run.st.file
           /\ sst_res' = run.res @@ [call |-> "finish", entry |-> None]
    /\ UNCHANGED <<sst_added, sst_calls, sst_rd, sst_it, sst_out, slVars,
                   mtVars, walVars, codecVars>>

\* a writer made by with_block_size, nothing added, no reader yet
SstInit ==
    /\ sst_w \in {NewWriter(bs) : bs \in BlockSizes}
    /\ sst_file = <<>>
    /\ sst_res = [kind |-> "none", call |-> "none", entry |-> None]
    /\ sst_added = <<>>
    /\ sst_calls = 0
    /\ sst_rd = [state |-> "none"]
    /\ sst_it = [state |-> "none"]
    /\ sst_out = [kind |-> "none", call |-> "none"]

----------------------------------------------------------------------------
(* SSTable: reader *)

\* read_exact of n bytes at pos succeeds
CanRead(file, pos, n) == pos >= 0 /\ n >= 0 /\ pos + n <= Len(file)

\* SSTableReader::read_footer
ReadFooter(file) ==
    IF Len(file) < FOOTER_SIZE THEN [kind |-> "InvalidFormat"]
    ELSE FooterFromBytes(SubSeq(file, Len(file) - FOOTER_SIZE + 1, Len(file)))

RECURSIVE ReadIndexEntries(_, _, _, _)
\* the loop of read_index, then the checksum
ReadIndexEntries(file, pos, left, acc) ==
    IF left = 0
    THEN IF CanRead(file, pos, 4) THEN [kind |-> "Ok", index |-> acc]
         ELSE [kind |-> "Io"]
    ELSE IF ~CanRead(file, pos, 12) THEN [kind |-> "Io"]
    ELSE LET block_offset == GetU64(file, pos)
             key_len == GetU32(file, pos + 8)
         IN  IF ~CanRead(file, pos + 12, key_len) THEN [kind |-> "Io"]
             ELSE ReadIndexEntries(file, pos + 12 + key_len, left - 1,
                      Append(acc, IndexEntry(block_offset,
                          SubSeq(file, pos + 13, pos + 12 + key_len))))

\* SSTableReader::read_index
ReadIndex(file, footer) ==
    IF ~CanRead(file, footer.index_offset, 4) THEN [kind |-> "Io"]
    ELSE ReadIndexEntries(file, footer.index_offset + 4,
                          GetU32(file, footer.index_offset), <<>>)

\* SSTableReader::open
OpenRun(file) ==
    LET f == ReadFooter(file)
    IN  IF f.kind # "Ok" THEN [state |-> "error", kind |-> f.kind]
        ELSE LET ix == ReadIndex(file, f.footer)
             IN  IF ix.kind # "Ok" THEN [state |-> "error", kind |-> ix.kind]
                 ELSE [state |-> "open", kind |-> "Ok", footer |-> f.footer,
                       index |-> ix.index, block_cache |-> {}]

\* SSTableReader::read_entry at pos
SstReadEntry(file, pos) ==
    IF ~CanRead(file, pos, 17) THEN [kind |-> "Io"]
    ELSE LET key_len == GetU32(file, pos)
             value_len == GetU32(file, pos + 4)
             timestamp == GetU64(file, pos + 8)
             op_byte == file[pos + 17]
         IN  IF op_byte \notin {0, 1} THEN [kind |-> "InvalidFormat"]
             ELSE IF ~CanRead(file, pos + 17, key_len) THEN [kind |-> "Io"]
             ELSE IF ~CanRead(file, pos + 17 + key_len, value_len)
             THEN [kind |-> "Io"]
             ELSE [kind |-> "Ok",
                   entry |-> SstEntry(
                       SstKey(SubSeq(file, pos + 18, pos + 17 + key_len),
                              timestamp,
                              IF op_byte = 0 THEN "Put" ELSE "Delete"),
                       SubSeq(file, pos + 18 + key_len,
                              pos + 17 + key_len + value_len)),
                   pos |-> pos + 17 + key_len + value_len]

RECURSIVE ReadBlockEntries(_, _, _, _)
\* the loop of read_block, then the checksum
ReadBlockEntries(file, pos, left, acc) ==
    IF left = 0
    THEN IF CanRead(file, pos, 4) THEN [kind |-> "Ok", entries |-> acc]
         ELSE [kind |-> "Io"]
    ELSE LET e == SstReadEntry(file, pos)
         IN  IF e.kind # "Ok" THEN [kind |-> e.kind]
             ELSE ReadBlockEntries(file, e.pos, left - 1,
                                   Append(acc, e.entry))

\* SSTableReader::read_block
ReadBlock(file, block_offset) ==
    IF ~CanRead(file, block_offset, 4) THEN [kind |-> "Io"]
    ELSE ReadBlockEntries(file, block_offset + 4, GetU32(file, block_offset),
                          <<>>)

RECURSIVE FindBlockLoop(_, _, _, _)
\* the loop of find_block_for_key
FindBlockLoop(index, i, user_key, result) ==
    IF i > Len(index) THEN result
    ELSE IF BytesCmp(index[i].first_key, user_key) <= 0
    THEN FindBlockLoop(index, i + 1, user_key, Some(index[i].block_offset))
    ELSE result

\* the first block whose first key is <= user_key, else the first block
FindBlockForKeyFirst(index, user_key) ==
    IF index = <<>> THEN None
    ELSE LET hits == {i \in 1..Len(index) :
                         BytesCmp(index[i].first_key, user_key) <= 0}
         IN  IF hits = {} THEN Some(index[1].block_offset)
             ELSE Some(index[CHOOSE i \in hits : \A j \in hits : i <= j]
                         .block_offset)

\* SSTableReader::find_block_for_key
FindBlockForKey(index, user_key) ==
    IF index = <<>> THEN None
    ELSE LET result == FindBlockLoop(index, 1, user_key, None)
         IN  IF result # None THEN result ELSE Some(index[1].block_offset)

\* SSTableReader::load_block: the block and the cache after the call
LoadBlock(rd, file, block_offset) ==
    IF \E c \in rd.block_cache : c.offset = block_offset
    THEN [kind |-> "Ok",
          entries |-> (CHOOSE c \in rd.block_cache :
                          c.offset = block_offset).entries,
          rd |-> rd]
    ELSE LET b == ReadBlock(file, block_offset)
         IN  IF b.kind # "Ok" THEN [kind |-> b.kind, rd |-> rd]
             ELSE [kind |-> "Ok", entries |-> b.entries,
                   rd |-> [rd EXCEPT !.block_cache =
                             @ \cup {[offset |-> block_offset,
                                      entries |-> b.entries]}]]

RECURSIVE BinarySearch(_, _, _, _)
\* slice::binary_search_by(|entry| entry.key.cmp(target)) on entries[lo+1..hi]
BinarySearch(entries, target, lo, hi) ==
    IF lo >= hi THEN None
    ELSE LET mid == lo + ((hi - lo) \div 2)
             c == SstCmp(entries[mid + 1].key, target)
         IN  IF c = 0 THEN Some(mid + 1)
             ELSE IF c < 0 THEN BinarySearch(entries, target, mid + 1, hi)
             ELSE BinarySearch(entries, target, lo, mid)

RECURSIVE PartitionPoint(_, _, _, _)
\* slice::partition_point(|entry| entry.key.user_key < user_key): the number
\* of entries at the front for which the test holds
PartitionPoint(entries, user_key, lo, hi) ==
    IF lo >= hi THEN lo
    ELSE LET mid == lo + ((hi - lo) \div 2)
         IN  IF BytesCmp(entries[mid + 1].key.user_key, user_key) < 0
             THEN PartitionPoint(entries, user_key, mid + 1, hi)
             ELSE PartitionPoint(entries, user_key, lo, mid)

\* SSTableReader::get
SstGetRun(rd, file, user_key, timestamp) ==
    LET block_offset == FindBlockForKey(rd.index, user_key)
    IN  IF block_offset = None
        THEN [kind |-> "Ok", value |-> None, rd |-> rd]
        ELSE LET b == LoadBlock(rd, file, block_offset[1])
             IN  IF b.kind # "Ok" THEN [kind |-> b.kind, rd |-> b.rd]
                 ELSE LET hit == BinarySearch(b.entries,
                                     SstKey(user_key, timestamp, "Put"), 0,
                                     Len(b.entries))
                      IN  [kind |-> "Ok",
                           value |-> IF hit = None THEN None
                                     ELSE Some(b.entries[hit[1]].value),
                           rd |-> b.rd]

RECURSIVE LatestLoop(_, _, _, _)
\* the loop of get_latest over entries[i..]
LatestLoop(entries, i, user_key, max_timestamp) ==
    IF i > Len(entries) THEN None
    ELSE IF entries[i].key.user_key # user_key THEN None
    ELSE IF entries[i].key.timestamp <= max_timestamp
    THEN Some([value |-> entries[i].value,
               timestamp |-> entries[i].key.timestamp,
               operation |-> entries[i].key.operation])
    ELSE LatestLoop(entries, i + 1, user_key, max_timestamp)

\* SSTableReader::get_latest
SstGetLatestRun(rd, file, user_key, max_timestamp) ==
    LET block_offset == FindBlockForKey(rd.index, user_key)
    IN  IF block_offset = None
        THEN [kind |-> "Ok", found |-> None, rd |-> rd]
        ELSE LET b == LoadBlock(rd, file, block_offset[1])
             IN  IF b.kind # "Ok" THEN [kind |-> b.kind, rd |-> b.rd]
                 ELSE [kind |-> "Ok",
                       found |-> LatestLoop(b.entries,
                                     PartitionPoint(b.entries, user_key, 0,
                                                    Len(b.entries)) + 1,
                                     user_key, max_timestamp),
                       rd |-> b.rd]

\* the keys and timestamps asked of the reader
QueryKeys == Keys \cup {<<0>>}
QueryVersions == 0..2

\* SSTableReader::open(path) on the file the writer created
SstOpen ==
    /\ sst_w.state # "none"
    /\ sst_rd.state = "none"
    /\ sst_rd' = OpenRun(sst_file)
    /\ sst_out' = [kind |-> sst_rd'.kind, call |-> "open"]
    /\ UNCHANGED <<sst_w, sst_file, sst_res, sst_added, sst_calls, sst_it,
                   slVars, mtVars, walVars, codecVars>>

\* reader.get(user_key, timestamp)
SstGet ==
    /\ sst_rd.state = "open"
    /\ \E k \in QueryKeys, ts \in QueryVersions :
         LET run == SstGetRun(sst_rd, sst_file, k, ts)
         IN  /\ sst_rd' = run.rd
             /\ sst_out' = [kind |-> run.kind, call |-> "get",
                            user_key |-> k, timestamp |-> ts,
                            value |-> IF run.kind = "Ok" THEN run.value
                                      ELSE None]
    /\ UNCHANGED <<sst_w, sst_file, sst_res, sst_added, sst_calls, sst_it,
                   slVars, mtVars, walVars, codecVars>>

\* reader.get_latest(user_key, max_timestamp)
SstGetLatest ==
    /\ sst_rd.state = "open"
    /\ \E k \in QueryKeys, ts \in QueryVersions :
         LET run == SstGetLatestRun(sst_rd, sst_file, k, ts)
         IN  /\ sst_rd' = run.rd
             /\ sst_out' = [kind |-> run.kind, call |-> "get_latest",
                            user_key |-> k, timestamp |-> ts,
                            found |-> IF run.kind = "Ok" THEN run.found
                                      ELSE None]
    /\ UNCHANGED <<sst_w, sst_file, sst_res, sst_added, sst_calls, sst_it,
                   slVars, mtVars, walVars, codecVars>>

InitSST == MemInit /\ WalUnused /\ CodecUnused /\ SstInit

\* SSTableIterator::new
NewIterator ==
    [state |-> "active", current_block_idx |-> 0, current_entry_idx |-> 0,
     start_key |-> None, end_key |-> None, current_block_entries |-> None,
     yielded |-> <<>>, nones |-> 0]

\* SSTableIterator::new_range
NewRange(rd, start_key, end_key) ==
    LET it == [NewIterator EXCEPT !.start_key = start_key,
                                  !.end_key = end_key]
    IN  IF start_key = None THEN it
        ELSE LET block_offset == FindBlockForKey(rd.index, start_key[1])
                 hits == IF block_offset = None THEN {}
                         ELSE {i \in 1..Len(rd.index) :
                                 rd.index[i].block_offset = block_offset[1]}
             IN  IF hits = {} THEN it
                 ELSE [it EXCEPT !.current_block_idx =
                         (CHOOSE i \in hits : \A j \in hits : i <= j) - 1]

RECURSIVE NextLoopNoEnd(_, _, _)
\* next without the test against end_key
NextLoopNoEnd(it, rd, file) ==
    IF it.current_block_idx >= Len(rd.index)
    THEN [it |-> it, item |-> [kind |-> "none"]]
    ELSE LET b == IF it.current_block_entries = None
                  THEN ReadBlock(file,
                           rd.index[it.current_block_idx + 1].block_offset)
                  ELSE [kind |-> "Ok",
                        entries |-> it.current_block_entries[1]]
         IN  IF b.kind # "Ok" THEN [it |-> it, item |-> [kind |-> b.kind]]
             ELSE LET i1 == IF it.current_block_entries = None
                            THEN [it EXCEPT
                                    !.current_block_entries = Some(b.entries),
                                    !.current_entry_idx = 0]
                            ELSE it
                  IN  IF i1.current_entry_idx >= Len(b.entries)
                      THEN NextLoopNoEnd(
                               [i1 EXCEPT !.current_block_idx = @ + 1,
                                          !.current_entry_idx = 0,
                                          !.current_block_entries = None],
                               rd, file)
                      ELSE LET entry == b.entries[i1.current_entry_idx + 1]
                               i2 == [i1 EXCEPT !.current_entry_idx = @ + 1]
                           IN  IF i2.start_key # None
                                  /\ BytesCmp(entry.key.user_key,
                                              i2.start_key[1]) < 0
                               THEN NextLoopNoEnd(i2, rd, file)
                               ELSE [it |-> i2,
                                     item |-> [kind |-> "entry",
                                               entry |-> entry]]

RECURSIVE NextLoop(_, _, _)
\* SSTableIterator::next, with ensure_current_block and
\* advance_to_next_block
NextLoop(it, rd, file) ==
    IF it.current_block_idx >= Len(rd.index)
    THEN [it |-> it, item |-> [kind |-> "none"]]
    ELSE LET b == IF it.current_block_entries = None
                  THEN ReadBlock(file,
                           rd.index[it.current_block_idx + 1].block_offset)
                  ELSE [kind |-> "Ok",
                        entries |-> it.current_block_entries[1]]
         IN  IF b.kind # "Ok" THEN [it |-> it, item |-> [kind |-> b.kind]]
             ELSE LET i1 == IF it.current_block_entries = None
                            THEN [it EXCEPT
                                    !.current_block_entries = Some(b.entries),
                                    !.current_entry_idx = 0]
                            ELSE it
                  IN  IF i1.current_entry_idx >= Len(b.entries)
                      THEN NextLoop(
                               [i1 EXCEPT !.current_block_idx = @ + 1,
                                          !.current_entry_idx = 0,
                                          !.current_block_entries = None],
                               rd, file)
                      ELSE LET entry == b.entries[i1.current_entry_idx + 1]
                               i2 == [i1 EXCEPT !.current_entry_idx = @ + 1]
                           IN  IF i2.start_key # None
                                  /\ BytesCmp(entry.key.user_key,
                                              i2.start_key[1]) < 0
                               THEN NextLoop(i2, rd, file)
                               ELSE IF i2.end_key # None
                                  /\ BytesCmp(entry.key.user_key,
                                              i2.end_key[1]) >= 0
                               THEN [it |-> i2, item |-> [kind |-> "none"]]
                               ELSE [it |-> i2,
                                     item |-> [kind |-> "entry",
                                               entry |-> entry]]

\* the bounds given to range_iter
RangeBounds == {None} \cup {Some(k) : k \in Keys \cup {<<0>>, <<3>>}}

\* calls of next made after the iterator has returned None
MaxNextAfterNone == 2

\* reader.iter()
SstIter ==
    /\ sst_rd.state = "open"
    /\ sst_it.state = "none"
    /\ sst_it' = NewIterator
    /\ sst_out' = [kind |-> "Ok", call |-> "iter"]
    /\ UNCHANGED <<sst_w, sst_file, sst_res, sst_added, sst_calls, sst_rd,
                   slVars, mtVars, walVars, codecVars>>

\* reader.range_iter(start_key, end_key)
SstRangeIter ==
    /\ sst_rd.state = "open"
    /\ sst_it.state = "none"
    /\ \E start_key, end_key \in RangeBounds :
         sst_it' = NewRange(sst_rd, start_key, end_key)
    /\ sst_out' = [kind |-> "Ok", call |-> "range_iter"]
    /\ UNCHANGED <<sst_w, sst_file, sst_res, sst_added, sst_calls, sst_rd,
                   slVars, mtVars, walVars, codecVars>>

\* iterator.next()
SstNext ==
    /\ sst_it.state = "active"
    /\ sst_it.nones < MaxNextAfterNone
    /\ LET run == NextLoop(sst_it, sst_rd, sst_file)
       IN  /\ sst_it' = [run.it EXCEPT
                           !.yielded = IF run.item.kind = "entry"
                                       THEN Append(@, run.item.entry)
                                       ELSE @,
                           !.nones = IF run.item.kind = "none"
                                     THEN @ + 1 ELSE @]
           /\ sst_out' = run.item @@ [call |-> "next"]
    /\ UNCHANGED <<sst_w, sst_file, sst_res, sst_added, sst_calls, sst_rd,
                   slVars, mtVars, walVars, codecVars>>

\* build a table, open it, iterate
NextSSTIter ==
    SstAdd \/ SstFinish \/ SstOpen \/ SstIter \/ SstRangeIter \/ SstNext

SpecSSTIter == InitSST /\ [][NextSSTIter]_vars

\* the values given to the four u64 fields of a footer
FooterFields == {0, 300}

\* a footer made by Footer::new, not yet serialized; no SSTable writer
FooterInit ==
    /\ codec_entry \in {NewFooter(a, b, c, d) : a, b, c, d \in FooterFields}
    /\ codec_data = <<>>
    /\ codec_at = 0
    /\ codec_result = [kind |-> "undecoded"]

\* footer.to_bytes()
FooterEncode ==
    /\ codec_result.kind = "undecoded"
    /\ codec_data = <<>>
    /\ codec_data' = FooterToBytes(codec_entry)
    /\ UNCHANGED <<codec_entry, codec_at, codec_result, slVars, mtVars,
                   walVars, sstVars>>

\* one byte of the magic field of the 40 bytes is given another value
FooterMutate ==
    /\ codec_result.kind = "undecoded"
    /\ codec_data # <<>>
    /\ codec_at = 0
    /\ \E i \in (FOOTER_SIZE - 7)..FOOTER_SIZE :
         \E v \in (0..255) \ {codec_data[i]} :
            /\ codec_data' = [codec_data EXCEPT ![i] = v]
            /\ codec_at' = i
    /\ UNCHANGED <<codec_entry, codec_result, slVars, mtVars, walVars,
                   sstVars>>

\* Footer::from_bytes(&bytes)
FooterDecode ==
    /\ codec_result.kind = "undecoded"
    /\ codec_data # <<>>
    /\ codec_result' = FooterFromBytes(codec_data)
    /\ UNCHANGED <<codec_entry, codec_data, codec_at, slVars, mtVars,
                   walVars, sstVars>>

\* where a finished file may be cut short
CutPoints(file) ==
    {0, FOOTER_SIZE - 1, FOOTER_SIZE, Len(file) - 1} \cap 0..(Len(file) - 1)

\* the finished file is cut short, or one byte of its last eight is changed,
\* before it is opened
SstDamage ==
    /\ sst_w.state = "consumed"
    /\ sst_rd.state = "none"
    /\ sst_out.call = "none"
    /\ \/ \E n \in CutPoints(sst_file) : sst_file' = SubSeq(sst_file, 1, n)
       \/ \E i \in (Len(sst_file) - 7)..Len(sst_file) :
            sst_file' = [sst_file EXCEPT ![i] = 255 - @]
    /\ sst_out' = [kind |-> "Ok", call |-> "damage"]
    /\ UNCHANGED <<sst_w, sst_res, sst_added, sst_calls, sst_rd, sst_it,
                   slVars, mtVars, walVars, codecVars>>

\* either the footer codec alone, or a file written, damaged or not, and
\* opened
InitFooter ==
    /\ MemInit
    /\ WalUnused
    /\ \/ FooterInit /\ SstUnused
       \/ CodecUnused /\ SstInit

NextFooter ==
    \/ FooterEncode \/ FooterMutate \/ FooterDecode
    \/ SstAdd \/ SstFinish \/ SstDamage \/ SstOpen

SpecFooter == InitFooter /\ [][NextFooter]_vars

\* build a table, open it, look keys up
NextSSTGet == SstAdd \/ SstFinish \/ SstOpen \/ SstGet \/ SstGetLatest

SpecSSTGet == InitSST /\ [][NextSSTGet]_vars

----------------------------------------------------------------------------
(* Claims about the SSTable *)

\* key a is at or before key b: a smaller user key, or the same user key
\* with an equal or newer version
AtOrBefore(a, b) ==
    \/ BytesCmp(a.user_key, b.user_key) < 0
    \/ a.user_key = b.user_key /\ a.timestamp >= b.timestamp

\* C21: an add on an unfinished writer returns KeyOrderingViolation exactly
\* when some earlier add was accepted and the new key is at or before the
\* last accepted key (smaller user key, or same user key with an equal or
\* newer version); otherwise it returns Ok.
C21_OrderingViolationExactly ==
    [][(sst_calls' = sst_calls + 1) =>
         LET key == sst_res'.entry[1].key
             late == /\ sst_added # <<>>
                     /\ AtOrBefore(key, sst_added[Len(sst_added)].key)
         IN  /\ sst_res'.kind = "KeyOrderingViolation" <=> late
             /\ sst_res'.kind = "Ok" <=> ~late
             /\ late => (sst_added' = sst_added /\ sst_file' = sst_file
                           /\ sst_w' = sst_w)
             /\ ~late => sst_added' = Append(sst_added, sst_res'.entry[1])
      ]_vars

\* an add of the last accepted user key with a newer version was rejected
C21_Witness ==
    /\ sst_res.kind = "KeyOrderingViolation"
    /\ sst_added # <<>>
    /\ sst_res.entry[1].key.user_key = sst_added[Len(sst_added)].key.user_key
    /\ sst_res.entry[1].key.timestamp > sst_added[Len(sst_added)].key.timestamp

RECURSIVE BlocksFrom(_, _, _)
\* the entries of the data blocks the index names, from block i on, in
\* index order
BlocksFrom(file, index, i) ==
    IF i > Len(index) THEN <<>>
    ELSE LET b == ReadBlock(file, index[i].block_offset)
         IN  (IF b.kind = "Ok" THEN b.entries ELSE <<>>)
               \o BlocksFrom(file, index, i + 1)

\* the entries stored in a file that open accepts, in file order
StoredEntries(file) ==
    LET rd == OpenRun(file)
    IN  IF rd.state = "open" THEN BlocksFrom(file, rd.index, 1) ELSE <<>>

\* the writer was finished after at least one accepted add
Finished == sst_w.state = "consumed" /\ sst_res.kind = "Ok"

\* C22: after any sequence of accepted and rejected add calls and finish,
\* the entries stored in the file, read block by block in file order, are
\* strictly increasing (user key ascending, then version descending), so no
\* two stored entries have the same (user_key, version).
C22_StoredStrictlyIncreasing ==
    Finished =>
        LET es == StoredEntries(sst_file)
        IN  /\ Len(es) = sst_res.entry_count
            /\ \A i, j \in 1..Len(es) :
                 i < j =>
                   /\ ~AtOrBefore(es[j].key, es[i].key)
                   /\ <<es[i].key.user_key, es[i].key.timestamp>>
                        # <<es[j].key.user_key, es[j].key.timestamp>>

\* a finished table of two blocks or more, built with a rejected add among
\* the calls
C22_Witness ==
    /\ Finished
    /\ sst_calls > Len(sst_added)
    /\ Len(sst_added) >= 2
    /\ Len(sst_w.index_entries) >= 2
    /\ Len(StoredEntries(sst_file)) = Len(sst_added)

\* C23: for every accepted entry sequence and every target block size, an
\* iterator made by iter() on the opened finished file yields a prefix of
\* the accepted entries at every point and, once it has returned None,
\* exactly the accepted entries, each once, in the order of the add calls,
\* with key, version, operation and value as given.
C23_WriteReadRoundTrip ==
    (Finished /\ sst_it.state = "active"
       /\ sst_it.start_key = None /\ sst_it.end_key = None) =>
        /\ Len(sst_it.yielded) <= Len(sst_added)
        /\ sst_it.yielded = SubSeq(sst_added, 1, Len(sst_it.yielded))
        /\ sst_it.nones > 0 => sst_it.yielded = sst_added
        /\ sst_out.call = "next" => sst_out.kind \in {"entry", "none"}

\* a table of two blocks or more with a Put and a Delete and values of
\* both lengths was read back to the end
C23_Witness ==
    /\ Finished
    /\ sst_it.state = "active"
    /\ sst_it.start_key = None /\ sst_it.end_key = None
    /\ sst_it.nones > 0
    /\ Len(sst_it.yielded) = 3
    /\ Len(sst_rd.index) >= 2
    /\ \E i, j \in 1..3 :
         /\ sst_it.yielded[i].key.operation = "Delete"
         /\ sst_it.yielded[j].key.operation = "Put"
         /\ Len(sst_it.yielded[j].value) = 2

\* the value of the accepted entry with user key k and version ts, if any
WrittenValue(k, ts) ==
    LET hits == {i \in 1..Len(sst_added) :
                    /\ sst_added[i].key.user_key = k
                    /\ sst_added[i].key.timestamp = ts}
    IN  IF hits = {} THEN None
        ELSE Some(sst_added[CHOOSE i \in hits : TRUE].value)

\* C24: on a table built by the writer, with any number of blocks, get(k,
\* ts) returns Some(v) exactly when an entry with user key k and version ts
\* was written with value v, whatever its operation, and None otherwise.
C24_GetExactVersion ==
    (Finished /\ sst_out.call = "get") =>
        /\ sst_out.kind = "Ok"
        /\ sst_out.value = WrittenValue(sst_out.user_key, sst_out.timestamp)

\* the accepted entries of user key k with a version of at most cap
Qualifying(k, cap) ==
    {i \in 1..Len(sst_added) :
        /\ sst_added[i].key.user_key = k
        /\ sst_added[i].key.timestamp <= cap}

\* C25: whenever get_latest(k, cap) returns an entry, it is the entry of
\* user key k with the largest version not above cap in the whole table: no
\* entry of k in any block has a version above the returned one and at most
\* cap.
C25_LatestInWholeTable ==
    (Finished /\ sst_out.call = "get_latest" /\ sst_out.kind = "Ok"
       /\ sst_out.found # None) =>
        LET got == sst_out.found[1]
            q == Qualifying(sst_out.user_key, sst_out.timestamp)
        IN  /\ \E i \in q :
                 /\ sst_added[i].key.timestamp = got.timestamp
                 /\ sst_added[i].key.operation = got.operation
                 /\ sst_added[i].value = got.value
            /\ \A i \in q : sst_added[i].key.timestamp <= got.timestamp

\* the number of the block the index selects for k: the last block whose
\* first key is <= k, else the first block
SelectedBlock(index, k) ==
    LET le == {i \in 1..Len(index) : BytesCmp(index[i].first_key, k) <= 0}
    IN  IF le = {} THEN 1 ELSE CHOOSE i \in le : \A j \in le : j <= i

\* C26: get_latest(k, cap) returns, among the entries of the block the
\* index selects for k, the entry of user key k with the largest version of
\* at most cap, with its value, version and operation, and None when that
\* block has no entry of k with a version of at most cap.
C26_LatestInSelectedBlock ==
    (Finished /\ sst_out.call = "get_latest") =>
        LET k == sst_out.user_key
            cap == sst_out.timestamp
            blk == ReadBlock(sst_file,
                     sst_rd.index[SelectedBlock(sst_rd.index, k)]
                       .block_offset).entries
            q == {i \in 1..Len(blk) : /\ blk[i].key.user_key = k
                                      /\ blk[i].key.timestamp <= cap}
        IN  /\ sst_out.kind = "Ok"
            /\ q = {} => sst_out.found = None
            /\ q # {} =>
                 \E i \in q :
                    /\ \A j \in q :
                         blk[j].key.timestamp <= blk[i].key.timestamp
                    /\ sst_out.found =
                         Some([value |-> blk[i].value,
                               timestamp |-> blk[i].key.timestamp,
                               operation |-> blk[i].key.operation])

\* in a table of two blocks, the cap passed over the newest version of a
\* key and the older version in the same block was returned
C26_Witness ==
    /\ Finished
    /\ sst_out.call = "get_latest"
    /\ Len(sst_rd.index) = 2
    /\ sst_out.found # None
    /\ \E i, j \in 1..Len(sst_added) :
         /\ i < j
         /\ sst_added[i].key.user_key = sst_out.user_key
         /\ sst_added[j].key.user_key = sst_out.user_key
         /\ sst_added[i].key.timestamp > sst_out.timestamp
         /\ sst_added[j].key.timestamp = sst_out.found[1].timestamp
         /\ sst_w.block_size = 40

\* where in the accepted sequence an entry stands (0 if nowhere)
PlaceOf(e) ==
    IF \E i \in 1..Len(sst_added) : sst_added[i] = e
    THEN CHOOSE i \in 1..Len(sst_added) : sst_added[i] = e
    ELSE 0

\* C27: every entry an iterator made by range_iter(start, end) yields has
\* start <= user_key < end (each bound only when given); the entries come in
\* file order, none twice; and once the iterator has returned None, as it
\* does at the first entry with user_key >= end, no later call of next
\* yields an entry.
C27_RangeIterWithinBounds ==
    /\ []((Finished /\ sst_it.state = "active") =>
            /\ \A i \in 1..Len(sst_it.yielded) :
                 LET uk == sst_it.yielded[i].key.user_key
                 IN  /\ sst_it.start_key # None =>
                           BytesCmp(uk, sst_it.start_key[1]) >= 0
                     /\ sst_it.end_key # None =>
                           BytesCmp(uk, sst_it.end_key[1]) < 0
                     /\ PlaceOf(sst_it.yielded[i]) > 0
            /\ \A i, j \in 1..Len(sst_it.yielded) :
                 i < j => PlaceOf(sst_it.yielded[i])
                            < PlaceOf(sst_it.yielded[j]))
    /\ [][(sst_it.state = "active" /\ sst_it.nones > 0)
            => (sst_it'.yielded = sst_it.yielded
                  /\ sst_it'.nones >= sst_it.nones)]_vars

\* a range with both bounds given yielded an entry, returned None at the
\* first entry at or over the end key, and returned None again when next
\* was called with another such entry still ahead
C27_Witness ==
    /\ Finished
    /\ sst_it.state = "active"
    /\ sst_it.start_key # None
    /\ sst_it.end_key # None
    /\ sst_it.yielded # <<>>
    /\ sst_it.nones = 2
    /\ Cardinality({i \in 1..Len(sst_added) :
                      BytesCmp(sst_added[i].key.user_key,
                               sst_it.end_key[1]) >= 0}) >= 2

\* C28: finish on a writer to which nothing was added returns
\* EmptyOperation, and it does so before writing anything: no index block,
\* bloom region or footer is in the file, and open does not accept the file.
C28_EmptyFinishWritesNothing ==
    (sst_w.state = "consumed" /\ sst_added = <<>>) =>
        /\ sst_res.kind = "EmptyOperation"
        /\ sst_file = <<>>
        /\ OpenRun(sst_file).state # "open"

\* C29: from_bytes(to_bytes(f)) is f for every footer made with the SSTable
\* magic; 40 bytes whose magic field has any other value are rejected with
\* InvalidFormat; open gives InvalidFormat and no reader for a file shorter
\* than 40 bytes and for a file whose last 8 bytes are not the magic.
C29_FooterCodecAndValidation ==
    /\ codec_result.kind \notin {"none", "undecoded"} =>
         /\ codec_at = 0 =>
              codec_result = [kind |-> "Ok", footer |-> codec_entry]
         /\ codec_at # 0 => codec_result = [kind |-> "InvalidFormat"]
    /\ sst_out.call = "open" =>
         LET n == Len(sst_file)
             bad == \/ n < FOOTER_SIZE
                    \/ SubSeq(sst_file, n - 7, n) # MagicBytes(SSTABLE_MAGIC)
         IN  /\ bad => /\ sst_rd.state = "error"
                       /\ sst_rd.kind = "InvalidFormat"
             /\ sst_rd.state = "open" =>
                  sst_rd.footer.magic = SSTABLE_MAGIC

\* a finished file of 40 bytes or more with one byte of its magic changed
\* was refused by open
C29_Witness ==
    /\ sst_w.state = "consumed"
    /\ sst_added # <<>>
    /\ sst_out.call = "open"
    /\ sst_rd.state = "error"
    /\ sst_rd.kind = "InvalidFormat"
    /\ Len(sst_file) = sst_w.file_offset
    /\ SubSeq(sst_file, Len(sst_file) - 7, Len(sst_file))
         # MagicBytes(SSTABLE_MAGIC)

\* C30: once every insert has returned, each linked node of height h is on
\* the chain from the head at every level 0..h-1: no node is left out of an
\* upper level because another insert's retried CAS linked around it.
C30_UpperLinksConverge ==
    AllIdle =>
        \A id \in SeqRange(Level0) :
           \A l \in DOMAIN nodes[id].next :
              id \in SeqRange(Chain(nodes, l))

----------------------------------------------------------------------------
(* Claims about concurrent appends and the size limit (wal/writer.rs)      *)

\* C31: while threads append concurrently, the tracked size and the number
\* of bytes handed to the file never exceed the size limit.
C31_SizeNeverOverLimit ==
    phase = "running" =>
        /\ wal_size <= WalSizeLimit
        /\ Len(osfile) + Len(wbuf) <= WalSizeLimit

----------------------------------------------------------------------------
(* Claims about the lifetime of MemTable entries (memtable/skip_list.rs)   *)

\* the version of the entry a get returned, -1 for None
VersionOf(mem, id) == IF id = NULL THEN -1 ELSE mem[id].timestamp

\* C32: an entry on the level-0 chain stays on it with the same key,
\* operation and value in every later state; a get returns a version at
\* least as new as the newest one linked when it was called, and a get
\* called after another get of the same (k, ts) has returned starts from a
\* list holding at least the version that one returned, so successive reads
\* never go down and never go back to None.
C32_EntriesNeverRemoved ==
    [][/\ \A id \in SeqRange(Level0) :
            /\ id \in SeqRange(Chain(nodes', 0))
            /\ nodes'[id].user_key = nodes[id].user_key
            /\ nodes'[id].timestamp = nodes[id].timestamp
            /\ nodes'[id].operation = nodes[id].operation
            /\ nodes'[id].value = nodes[id].value
       /\ (r.pc # "returned" /\ r'.pc = "returned") =>
            /\ VersionOf(nodes', r'.result) >= r.floor
            /\ r'.result # NULL => r'.result \in SeqRange(Chain(nodes', 0))
       /\ (r.pc = "returned" /\ r'.pc = "find_height"
             /\ r'.user_key = r.user_key /\ r'.timestamp = r.timestamp) =>
            r'.floor >= VersionOf(nodes, r.result)]_vars

\* a get of (k, 2) called when version 1 of k was the newest linked returned
\* version 2, linked by an insert that ran while the get was searching
C32_Witness ==
    /\ r.pc = "returned"
    /\ r.floor = 1
    /\ r.timestamp = 2
    /\ r.result # NULL
    /\ nodes[r.result].timestamp = 2
    /\ Len(Level0) = 2

\* what a step that is the put or delete call d leaves behind: one more
\* entry, which get(k, ts) returns for every ts from its version up to the
\* next newer version of the key
InsertedAndVisible(d) ==
    /\ size' = size + 1
    /\ \A ts \in d.timestamp..MaxTs :
         ~HasVersionIn(nodes', d.user_key, d.timestamp + 1, ts) =>
            LET id == SeqGet(nodes', height', d.user_key, ts)
            IN  /\ id # NULL
                /\ nodes'[id].timestamp = d.timestamp
                /\ nodes'[id].operation = d.operation
                /\ nodes'[id].value = d.value

\* C33 as stated: every put or delete that returns MemTableFull has
\* inserted its entry: the entry count has grown and a get at or above its
\* version observes the entry.
C33_FullStillInserted ==
    [][(ncalls' = ncalls + 1 /\ mt_result' = "MemTableFull") =>
          /\ size' = size + 1
          /\ \A d \in writes' \ writes : InsertedAndVisible(d)]_vars

\* C33: the same, for a put or delete of a (key, version) the MemTable holds
\* no entry of when it is called.
C33_FullStillInsertedAtNewVersion ==
    [][\A d \in writes' \ writes :
         (mt_result' = "MemTableFull"
            /\ ~HasVersionIn(nodes, d.user_key, d.timestamp, d.timestamp))
         => InsertedAndVisible(d)]_vars

\* the second call of two returned MemTableFull, and its entry is the one
\* get returns at its version
C33_Witness ==
    /\ mt_result = "MemTableFull"
    /\ ncalls = 2
    /\ size = 2
    /\ memory_usage > MemTableSize
    /\ \E d \in writes :
         /\ d.timestamp = MaxTs
         /\ SeqGet(nodes, height, d.user_key, MaxTs) = Len(nodes)
         /\ nodes[Len(nodes)].operation = d.operation
         /\ nodes[Len(nodes)].value = d.value

----------------------------------------------------------------------------
(* Claims about rejected adds (sstable/writer.rs)                          *)

----------------------------------------------------------------------------
(* Claims about the structure of the skip list (memtable/skip_list.rs)     *)

\* the first node of a chain whose key is not below `key`, or NULL
FirstAtOrAfter(mem, ch, key) ==
    LET at == {i \in 1..Len(ch) : Compare(KeyOf(mem[ch[i]]), key) >= 0}
    IN  IF at = {} THEN NULL ELSE ch[CHOOSE i \in at : \A j \in at : i <= j]

\* on the list (mem, hgt): the chain of each level is strictly increasing
\* and within the level-0 chain, and find ends at the first level-0 node
\* whose key is not below the key searched
WellFormed(mem, hgt) ==
    LET bottom == Chain(mem, 0)
    IN  /\ \A l \in 0..(TopHeight - 1) :
             LET ch == IF l = 0 THEN bottom ELSE Chain(mem, l)
             IN  /\ Sorted(mem, ch)
                 /\ SeqRange(ch) \subseteq SeqRange(bottom)
        /\ \A k \in Keys, ts \in 0..MaxTs :
             FindRun(IKey(k, ts), FindBegin(hgt, NoVec, NoVec), mem).succs[0]
               = FirstAtOrAfter(mem, bottom, IKey(k, ts))

\* C35: in every state reached while inserts run concurrently, the chain
\* from the head at each level is strictly increasing in internal-key order
\* and holds only nodes of the level-0 chain, and a find started in that
\* state ends, for every key, at the first level-0 node whose key is not
\* below the key searched.  The list is the pair (nodes, height): it is
\* well formed at the start and after every step that changes either.
C35_LevelsSortedWithinLevel0 ==
    /\ WellFormed(nodes, height)
    /\ [][(nodes' # nodes \/ height' # height)
            => WellFormed(nodes', height')]_vars

\* both inserts have returned; two nodes of height 2 are on level 0 and
\* only one of them is on level 1
C35_Witness ==
    /\ Len(Level0) = 2
    /\ Len(Chain(nodes, 1)) = 1
    /\ \A id \in SeqRange(Level0) : DOMAIN nodes[id].next = 0..1
    /\ AllIdle

\* C36: with a bounded number of insert calls and every thread scheduled
\* again and again, each insert call that has started returns: the height
\* loop, the bottom-level retry loop and the upper-level retry loops all end.
C36_InsertReturns ==
    \A t \in Writers : (w[t].pc # "idle") ~> (w[t].pc = "idle")

\* every call has returned, after a bottom-level CAS had failed and after an
\* upper-level CAS had failed and been retried (the retry left a node of
\* height 2 off level 1)
C36_Witness ==
    /\ AllIdle
    /\ ncalls = MaxInserts
    /\ size + leaked >= MaxInserts
    /\ height = TopHeight
    /\ \E id \in SeqRange(Level0) :
         /\ 1 \in DOMAIN nodes[id].next
         /\ id \notin SeqRange(Chain(nodes, 1))

----------------------------------------------------------------------------
(* Claims about the completeness of range iteration (sstable/reader.rs)    *)

\* C37: once an iterator made by range_iter(start, end) on a table built by
\* the writer has returned None, it has yielded every stored entry with
\* start <= user_key < end (each bound only when given), also when the
\* versions of the user key equal to start lie in two blocks.
C37_RangeIterComplete ==
    (Finished /\ sst_it.state = "active" /\ sst_it.nones > 0) =>
        \A i \in 1..Len(sst_added) :
           LET uk == sst_added[i].key.user_key
           IN  ((sst_it.start_key # None =>
                    BytesCmp(uk, sst_it.start_key[1]) >= 0)
                  /\ (sst_it.end_key # None =>
                        BytesCmp(uk, sst_it.end_key[1]) < 0))
               => \E j \in 1..Len(sst_it.yielded) :
                     sst_it.yielded[j] = sst_added[i]

\* C38: the MemTable never holds two entries with the same (user_key,
\* version), whatever their operations and values; a get at the version of
\* a linked entry returns that entry, and the entry stays linked with its
\* operation and value, so the first entry linked for a (user_key, version)
\* is the one every later get returns and a later write of the same
\* (user_key, version) with another operation does not replace it.
C38_IdentityIsKeyAndVersion ==
    /\ [](\A i, j \in SeqRange(Level0) :
            (nodes[i].user_key = nodes[j].user_key
               /\ nodes[i].timestamp = nodes[j].timestamp) => i = j)
    /\ [](\A id \in SeqRange(Level0) :
            SeqGet(nodes, height, nodes[id].user_key, nodes[id].timestamp) = id)
    /\ [][\A id \in SeqRange(Level0) :
            /\ id \in SeqRange(Chain(nodes', 0))
            /\ nodes'[id].operation = nodes[id].operation
            /\ nodes'[id].user_key = nodes[id].user_key
            /\ nodes'[id].timestamp = nodes[id].timestamp
            /\ nodes'[id].value = nodes[id].value]_vars

\* a delete and then a put of the same (user_key, version) were called; the
\* put found the tombstone and linked nothing, and get returns the tombstone
C38_Witness ==
    /\ AllIdle
    /\ ncalls = 2
    /\ Cardinality(called) = 1
    /\ leaked = 0
    /\ size = 1
    /\ Len(Level0) = 1
    /\ nodes[Level0[1]].operation = "Delete"
    /\ \E key \in called :
         GetOp(nodes, height, key.user_key, key.timestamp) = "Delete"

\* C39: once the insert calls have returned, every node an insert allocated
\* is on the level-0 chain or has been given to the reclaimer: none is left
\* allocated and unreachable after a failed bottom-level CAS.
C39_NoNodeLost ==
    AllIdle => leaked = 0

----------------------------------------------------------------------------
(* decode applied to buffers that no encode produced (wal/log_entry.rs)    *)

\* the frame encode puts around a body: the length field and the CRC-32
Frame(body) == U32LE(Len(body) + 4) \o Crc32(body) \o body

\* the buffers handed to decode: every prefix of a record's body with a
\* frame whose length and checksum agree with it, and every cut of an
\* encoded record
DecodeBuffers ==
    UNION {{Frame(Take(EncodeBody(e), n)) : n \in 0..(Len(EncodeBody(e)) - 1)}
             \cup {Take(Encode(e), n) : n \in 1..Len(Encode(e))} :
           e \in WalRecords}

\* a buffer read from a file, not yet decoded
DecodeInit ==
    /\ codec_entry = [timestamp |-> 0, operation |-> "Put", key |-> <<>>,
                      value |-> <<>>]
    /\ codec_data \in DecodeBuffers
    /\ codec_at = 0
    /\ codec_result = [kind |-> "none"]

InitDecode == MemInit /\ WalUnused /\ DecodeInit /\ SstUnused

SpecDecode == InitDecode /\ [][CodecDecode]_vars

\* C40: decode returns a record or Error::Corruption for every buffer, also
\* for one whose length field and checksum agree with a body shorter than
\* the 17 bytes of version, operation, key length and value length: it
\* never aborts.
C40_DecodeIsTotal ==
    codec_result.kind \in {"none", "entry", "corruption"}

====
